---- MODULE Spec2Model ----
(***************************************************************************)
(* A model of the 3DS friends system module (frd:u / frd:a / frd:n).       *)
(*                                                                         *)
(* The service is single threaded: it receives one request, runs the       *)
(* handler to completion and replies before it accepts the next request.   *)
(* A handler is therefore one atomic action.  `request' and `reply' hold    *)
(* the request being answered and its reply; `svc_calls' lists the kernel   *)
(* and provider calls the handler made, with their outcomes.               *)
(***************************************************************************)
EXTENDS Integers, Sequences, FiniteSets, TLC

VARIABLES
    ndm_wifi_state,          \* FriendServiceContext.ndm_wifi_state (u8)
    wifi_connection_status,  \* FriendServiceContext.wifi_connection_status
    friend_list,             \* FriendServiceContext.friend_list
    my_online_activity,      \* FriendServiceContext.my_online_activity
    save_archive,            \* the files of the system save data archive
    startup,                 \* the result of FriendServiceContext::new()
    registry,                \* accept_session and close_session calls so far
    session_contexts,        \* FriendServiceContext.session_contexts
    request,                 \* the request the handler is answering
    reply,                   \* the reply of the handler (NoReply while waiting)
    svc_calls,               \* kernel/provider calls made by the handler, in order
    out_buffer               \* the caller's write buffer mapped into the request

vars == <<ndm_wifi_state, wifi_connection_status, friend_list, my_online_activity,
          save_archive, startup, registry,
          session_contexts, request, reply, svc_calls, out_buffer>>

ctx_vars == <<ndm_wifi_state, wifi_connection_status, friend_list, my_online_activity,
              save_archive, startup, registry, session_contexts>>

----------------------------------------------------------------------------
(* Small helpers *)

Min(a, b) == IF a <= b THEN a ELSE b

\* sequences over S of length at most n
SeqsUpTo(S, n) == UNION {[1..k -> S] : k \in 0..n}

\* the largest parameter word the model draws (2^31 - 1)
BigWord == 2147483646 + 1

----------------------------------------------------------------------------
(* Result codes *)

Success == "Success"
InvalidCommand == "InvalidCommand"
InvalidPrincipalId == "InvalidPrincipalId"
InvalidFriendCode == "InvalidFriendCode"
GenericInvalidCommand == "GenericResultCode::InvalidCommand"
SignalEventError == "signal_event error"
QuickConnectError == "quick_connect error"
DisconnectError == "disconnect error"


----------------------------------------------------------------------------
(* WiFi connection status and the composite WiFi state (frd/wifi) *)

Idle == "Idle"
Connecting == "Connecting"
Connected == "Connected"
Disconnecting == "Disconnecting"

WiFiConnectionStatus == {Idle, Connecting, Connected, Disconnecting}

\* a mutant of get_wifi_state: the (2, Idle) arm is lost
get_wifi_state_no_idle_arm(ndm, status) ==
    IF ndm \in {0, 1} /\ status # Idle THEN 2
    ELSE IF ndm = 2 THEN 0
    ELSE 3

get_wifi_state(ndm, status) ==
    IF ndm = 0 /\ status = Connecting THEN 2
    ELSE IF ndm = 0 /\ status = Connected THEN 2
    ELSE IF ndm = 0 /\ status = Disconnecting THEN 2
    ELSE IF ndm = 1 /\ status = Connecting THEN 2
    ELSE IF ndm = 1 /\ status = Connected THEN 2
    ELSE IF ndm = 1 /\ status = Disconnecting THEN 2
    ELSE IF ndm = 2 /\ status = Idle THEN 1
    ELSE IF ndm = 2 THEN 0
    ELSE 3

\* svc::signal_event(&context.ndm_wifi_event_handle): one call, which the
\* kernel answers with success (ok) or an error
SignalWifiEvent(ok) == [fn |-> "signal_event", ok |-> ok]
QuickConnect(ok) == [fn |-> "quick_connect", ok |-> ok]
AcDisconnect(ok) == [fn |-> "disconnect", ok |-> ok]

\* the successful signals of the WiFi event among a list of calls
RECURSIVE Signals(_)
Signals(calls) ==
    IF calls = <<>> THEN 0
    ELSE (IF Head(calls).fn = "signal_event" /\ Head(calls).ok THEN 1 ELSE 0)
         + Signals(Tail(calls))

\* the calls of a given function among a list of calls
RECURSIVE CallsOf(_, _)
CallsOf(calls, fn) ==
    IF calls = <<>> THEN 0
    ELSE (IF Head(calls).fn = fn THEN 1 ELSE 0) + CallsOf(Tail(calls), fn)

\* a mutant of set_wifi_connection_status: signals on every status change
set_wifi_connection_status_always_signals(ndm, status, next, sig_ok) ==
    IF status # next
    THEN [status |-> next,
          calls |-> <<SignalWifiEvent(sig_ok)>>,
          result |-> IF sig_ok THEN Success ELSE SignalEventError]
    ELSE [status |-> status, calls |-> <<>>, result |-> Success]

\* set_wifi_connection_status(context, next): the new status, the calls made
\* and the result (`?' returns the error of a failed signal, after the swap)
set_wifi_connection_status(ndm, status, next, sig_ok) ==
    IF status # next
    THEN LET old_state == get_wifi_state(ndm, status)
             new_state == get_wifi_state(ndm, next)
         IN  IF old_state # new_state
             THEN [status |-> next,
                   calls |-> <<SignalWifiEvent(sig_ok)>>,
                   result |-> IF sig_ok THEN Success ELSE SignalEventError]
             ELSE [status |-> next, calls |-> <<>>, result |-> Success]
    ELSE [status |-> status, calls |-> <<>>, result |-> Success]

\* a tail of connect_to_wifi that signals whatever the ndm state was
signal_whatever_ndm_state_was(original_ndm_wifi_state, status, sig_ok) ==
    [ndm |-> 2, status |-> status, calls |-> <<SignalWifiEvent(sig_ok)>>,
     result |-> IF sig_ok THEN Success ELSE SignalEventError]

\* the end of connect_to_wifi when the status is not Idle: the event is
\* signalled if the ndm state was not 2 already
signal_if_ndm_state_was_not_2(original_ndm_wifi_state, status, sig_ok) ==
    IF original_ndm_wifi_state # 2
    THEN [ndm |-> 2, status |-> status, calls |-> <<SignalWifiEvent(sig_ok)>>,
          result |-> IF sig_ok THEN Success ELSE SignalEventError]
    ELSE [ndm |-> 2, status |-> status, calls |-> <<>>, result |-> Success]

\* connect_to_wifi(context); env gives the outcome of each call it may make:
\* env.sig1, env.sig2 (signal_event) and env.ac (AcController::quick_connect)
connect_to_wifi(ndm, status, env) ==
    LET original_ndm_wifi_state == ndm
        ndm2 == 2
    IN  IF status = Idle
        THEN LET s1 == set_wifi_connection_status(ndm2, status, Connecting, env.sig1)
             IN  IF s1.result # Success
                 THEN [ndm |-> ndm2, status |-> s1.status, calls |-> s1.calls,
                       result |-> s1.result]
                 ELSE IF env.ac
                 THEN LET s2 == set_wifi_connection_status(ndm2, s1.status, Connected,
                                                           env.sig2)
                      IN  [ndm |-> ndm2, status |-> s2.status,
                           calls |-> s1.calls \o <<QuickConnect(TRUE)>> \o s2.calls,
                           result |-> s2.result]
                 ELSE LET s2 == set_wifi_connection_status(ndm2, s1.status, Idle,
                                                           env.sig2)
                      IN  [ndm |-> ndm2, status |-> s2.status,
                           calls |-> s1.calls \o <<QuickConnect(FALSE)>> \o s2.calls,
                           result |-> IF s2.result # Success THEN s2.result
                                      ELSE QuickConnectError]
        ELSE signal_if_ndm_state_was_not_2(original_ndm_wifi_state, status, env.sig1)

----------------------------------------------------------------------------
(* SHA-1 of a four byte message (sha1::Sha1 as frd/utils/friend_code.rs    *)
(* uses it).  A 32 bit word is the pair <<hi, lo>> of its 16 bit halves, a  *)
(* byte is a number in 0..255.                                             *)

Word(hi, lo) == <<hi, lo>>

\* bitwise and of two 16 bit numbers
RECURSIVE And16(_, _)
And16(a, b) ==
    IF a = 0 \/ b = 0 THEN 0
    ELSE (a % 2) * (b % 2) + 2 * And16(a \div 2, b \div 2)

Xor16(a, b) == a + b - 2 * And16(a, b)
Or16(a, b) == a + b - And16(a, b)

\* wrapping addition of 32 bit words
Add32(a, b) ==
    LET lo == a[2] + b[2]
        hi == a[1] + b[1] + (lo \div 65536)
    IN  Word(hi % 65536, lo % 65536)

Xor32(a, b) == Word(Xor16(a[1], b[1]), Xor16(a[2], b[2]))
And32(a, b) == Word(And16(a[1], b[1]), And16(a[2], b[2]))
Or32(a, b) == Word(Or16(a[1], b[1]), Or16(a[2], b[2]))
Not32(a) == Word(65535 - a[1], 65535 - a[2])

Pow2(n) == <<1, 2, 4, 8, 16, 32, 64, 128, 256, 512, 1024, 2048, 4096, 8192,
             16384, 32768, 65536>>[n + 1]

\* rotate left by n bits, 0 <= n < 32
RotL32(a, n) ==
    LET x == IF n >= 16 THEN Word(a[2], a[1]) ELSE a
        k == n % 16
    IN  Word(((x[1] * Pow2(k)) % 65536) + (x[2] \div Pow2(16 - k)),
             ((x[2] * Pow2(k)) % 65536) + (x[1] \div Pow2(16 - k)))

\* the single padded block of a four byte message, as sixteen words
Sha1Block(bytes) ==
    <<Word(bytes[1] * 256 + bytes[2], bytes[3] * 256 + bytes[4]),
      Word(32768, 0),
      Word(0, 0), Word(0, 0), Word(0, 0), Word(0, 0), Word(0, 0), Word(0, 0),
      Word(0, 0), Word(0, 0), Word(0, 0), Word(0, 0), Word(0, 0), Word(0, 0),
      Word(0, 0),
      Word(0, 32)>>

\* the message schedule: sixteen words extended to eighty
RECURSIVE Sha1Schedule(_)
Sha1Schedule(w) ==
    IF Len(w) = 80 THEN w
    ELSE LET t == Len(w) + 1
         IN  Sha1Schedule(Append(w,
                 RotL32(Xor32(Xor32(w[t - 3], w[t - 8]),
                              Xor32(w[t - 14], w[t - 16])), 1)))

Sha1F(t, b, c, d) ==
    IF t < 20 THEN Or32(And32(b, c), And32(Not32(b), d))
    ELSE IF t < 40 THEN Xor32(Xor32(b, c), d)
    ELSE IF t < 60 THEN Or32(Or32(And32(b, c), And32(b, d)), And32(c, d))
    ELSE Xor32(Xor32(b, c), d)

Sha1K(t) ==
    IF t < 20 THEN Word(23170, 31129)
    ELSE IF t < 40 THEN Word(28377, 60321)
    ELSE IF t < 60 THEN Word(36635, 48348)
    ELSE Word(51810, 49622)

\* rounds t..79 from the working state v = <<a, b, c, d, e>>
RECURSIVE Sha1Rounds(_, _, _)
Sha1Rounds(w, t, v) ==
    IF t = 80 \/ Len(v) # 5 THEN v
    ELSE LET temp == Add32(Add32(Add32(RotL32(v[1], 5), Sha1F(t, v[2], v[3], v[4])),
                                 Add32(v[5], Sha1K(t))),
                           w[t + 1])
         IN  Sha1Rounds(w, t + 1, <<temp, v[1], RotL32(v[2], 30), v[3], v[4]>>)

\* the first byte of the SHA-1 digest of a four byte message
Sha1FirstByte(bytes) ==
    LET h0 == Word(26437, 8961)
        v0 == <<h0, Word(61389, 43913), Word(39098, 56574), Word(4146, 21622),
                Word(50130, 57840)>>
        v == Sha1Rounds(Sha1Schedule(Sha1Block(bytes)), 0, v0)
    IN  Add32(h0, v[1])[1] \div 256

----------------------------------------------------------------------------
(* Friend codes (frd/utils/friend_code.rs).  A u32 is a Word, a u64 is the  *)
(* pair <<high word, low word>>.                                            *)

Ok(value) == [ok |-> TRUE, value |-> value, error |-> Success]
Err(error) == [ok |-> FALSE, value |-> <<>>, error |-> error]

ZeroWord == Word(0, 0)
U64(high, low) == <<high, low>>
ZeroU64 == U64(ZeroWord, ZeroWord)

\* u32::to_le_bytes
to_le_bytes(w) == <<w[2] % 256, w[2] \div 256, w[1] % 256, w[1] \div 256>>

\* u64 as u32
AsU32(x) == x[2]

\* the largest of the small principal ids 0, 1, 2, ... the model draws
MaxSmallPrincipalId == 2

PrincipalIds ==
    {Word(0, n) : n \in 0..MaxSmallPrincipalId}
    \cup {Word(0, 65535), Word(1, 0), Word(32768, 0), Word(43707, 52445),
          Word(65535, 65535)}

\* hash[0] of each principal id the model draws, computed once
Sha1FirstByteOfId == [p \in PrincipalIds |-> Sha1FirstByte(to_le_bytes(p))]

\* hasher.update(&principal_id.to_le_bytes()); hasher.digest().bytes()[0]
DigestFirstByte(principal_id) ==
    IF principal_id \in PrincipalIds THEN Sha1FirstByteOfId[principal_id]
    ELSE Sha1FirstByte(to_le_bytes(principal_id))

\* a mutant of convert_principal_id_to_friend_code: the check for 0 is lost
convert_principal_id_to_friend_code_no_zero_check(principal_id) ==
    Ok(U64(Word(0, DigestFirstByte(principal_id) \div 2), principal_id))

convert_principal_id_to_friend_code(principal_id) ==
    IF principal_id = ZeroWord THEN Err(InvalidPrincipalId)
    ELSE LET hash0 == DigestFirstByte(principal_id)
         IN  Ok(U64(Word(0, hash0 \div 2), principal_id))

\* a mutant of validate_friend_code: only bits 0..38 are compared
validate_friend_code_low_39_bits(friend_code) ==
    IF friend_code = ZeroU64 THEN FALSE
    ELSE LET test == convert_principal_id_to_friend_code(AsU32(friend_code))
         IN  /\ test.ok
             /\ AsU32(friend_code) = AsU32(test.value)
             /\ friend_code[1][2] % 128 = test.value[1][2] % 128

validate_friend_code(friend_code) ==
    IF friend_code = ZeroU64 THEN FALSE
    ELSE LET principal_id == AsU32(friend_code)
             test == convert_principal_id_to_friend_code(principal_id)
         IN  IF test.ok THEN friend_code = test.value ELSE FALSE

convert_friend_code_to_principal_id(friend_code) ==
    LET is_valid == validate_friend_code(friend_code)
    IN  IF is_valid THEN Ok(AsU32(friend_code)) ELSE Err(InvalidFriendCode)

----------------------------------------------------------------------------
(* Requests and replies *)

\* the header of a request: the numbers of normal and of translate words
Header(normal, translate) == [normal |-> normal, translate |-> translate]

\* a request of `service': its header, its parameter words, the static buffer
\* it carries with the id of the slot it came in, and the caller's buffer the
\* handler may write to; `pre' and `pre_sessions' record the WiFi state and
\* the session contexts the request found
IpcRequest(service, command_id, session_index, header, words, buffer_id, static_buffer, mut_buffer) ==
    [service |-> service, command_id |-> command_id, session_index |-> session_index,
     header |-> header, words |-> words, buffer_id |-> buffer_id,
     static_buffer |-> static_buffer, mut_buffer |-> mut_buffer,
     pre |-> [ndm |-> ndm_wifi_state, status |-> wifi_connection_status],
     pre_sessions |-> session_contexts]

\* a request made of parameter words only
Request(service, command_id, session_index, words) ==
    IpcRequest(service, command_id, session_index, Header(Len(words), 0), words,
               0, <<>>, <<>>)

\* a reply: the result code, the words after it, the static buffers pushed
\* and the number of elements of the write buffer handed back (0 when none)
Reply(command_id, result, words, static_buffers, written) ==
    [command_id |-> command_id, result |-> result, words |-> words,
     static_buffers |-> static_buffers, written |-> written]

\* the handler returned Err(result): the reply carries only the result code
ErrReply(command_id, result) == Reply(command_id, result, <<>>, <<>>, 0)

NoRequest ==
    [service |-> "none", command_id |-> -1, session_index |-> 0,
     header |-> Header(0, 0), words |-> <<>>, buffer_id |-> 0,
     static_buffer |-> <<>>, mut_buffer |-> <<>>,
     pre |-> [ndm |-> 0, status |-> Idle], pre_sessions |-> <<>>]

NoReply == Reply(-1, "none", <<>>, <<>>, 0)

\* the service waits for a request
Waiting == reply = NoReply

\* the reply is sent and the service waits for the next request; a handler
\* that panicked has stopped the process (svc::break_execution)
SendReply ==
    /\ reply # NoReply
    /\ reply.result # "panic"
    /\ request' = NoRequest
    /\ reply' = NoReply
    /\ svc_calls' = <<>>
    /\ out_buffer' = <<>>
    /\ UNCHANGED ctx_vars

----------------------------------------------------------------------------
(* frd:n (frd/frdn.rs) *)

\* FrdNCommand
FrdN_InvalidCommand == 0
FrdN_GetWiFiEvent == 1
FrdN_ConnectToWiFi == 2
FrdN_DisconnectFromWiFi == 3
FrdN_GetWiFiState == 4

\* u8 ^ 1
XorOne(b) == IF b % 2 = 0 THEN b + 1 ELSE b - 1

\* a conversion that keeps every bit of the word
AsU8KeepsAllBits(w) == w

\* u32 as u8
AsU8(w) == w % 256

\* the outcomes the kernel and the ac provider may give to a handler's calls
Envs == [sig1 : BOOLEAN, sig2 : BOOLEAN, ac : BOOLEAN]

GetWiFiEvent(s) ==
    /\ Waiting
    /\ request' = Request("frd:n", FrdN_GetWiFiEvent, s, <<>>)
    /\ reply' = Reply(FrdN_GetWiFiEvent, Success, <<"ndm_wifi_event_handle">>, <<>>, 0)
    /\ svc_calls' = <<>>
    /\ UNCHANGED <<ctx_vars, out_buffer>>

ConnectToWiFi(s, env) ==
    /\ Waiting
    /\ LET r == connect_to_wifi(ndm_wifi_state, wifi_connection_status, env)
       IN  /\ ndm_wifi_state' = r.ndm
           /\ wifi_connection_status' = r.status
           /\ svc_calls' = r.calls
           /\ reply' = IF r.result = Success
                       THEN Reply(FrdN_ConnectToWiFi, Success, <<>>, <<>>, 0)
                       ELSE ErrReply(FrdN_ConnectToWiFi, r.result)
    /\ request' = Request("frd:n", FrdN_ConnectToWiFi, s, <<>>)
    /\ UNCHANGED <<friend_list, my_online_activity, save_archive, startup, registry, session_contexts, out_buffer>>

\* the DisconnectFromWiFi arm of handle_frdn_request
disconnect_from_wifi(ndm, status, word, env) ==
    LET connection_status == status
        original_ndm_wifi_state == ndm
        next_state == AsU8(word)
        ndm2 == XorOne(next_state)
    IN  IF connection_status = Connected
        THEN LET s1 == set_wifi_connection_status(ndm2, status, Disconnecting, env.sig1)
             IN  IF s1.result # Success
                 THEN [ndm |-> ndm2, status |-> s1.status, calls |-> s1.calls,
                       result |-> s1.result]
                 ELSE IF ~env.ac
                 THEN [ndm |-> ndm2, status |-> s1.status,
                       calls |-> s1.calls \o <<AcDisconnect(FALSE)>>,
                       result |-> DisconnectError]
                 ELSE LET s2 == set_wifi_connection_status(ndm2, s1.status, Idle, env.sig2)
                      IN  [ndm |-> ndm2, status |-> s2.status,
                           calls |-> s1.calls \o <<AcDisconnect(TRUE)>> \o s2.calls,
                           result |-> s2.result]
        ELSE IF original_ndm_wifi_state = 2
        THEN [ndm |-> ndm2, status |-> status,
              calls |-> <<SignalWifiEvent(env.sig1)>>,
              result |-> IF env.sig1 THEN Success ELSE SignalEventError]
        ELSE [ndm |-> ndm2, status |-> status, calls |-> <<>>, result |-> Success]

DisconnectFromWiFi(s, word, env) ==
    /\ Waiting
    /\ LET r == disconnect_from_wifi(ndm_wifi_state, wifi_connection_status, word, env)
       IN  /\ ndm_wifi_state' = r.ndm
           /\ wifi_connection_status' = r.status
           /\ svc_calls' = r.calls
           /\ reply' = IF r.result = Success
                       THEN Reply(FrdN_DisconnectFromWiFi, Success, <<>>, <<>>, 0)
                       ELSE ErrReply(FrdN_DisconnectFromWiFi, r.result)
    /\ request' = Request("frd:n", FrdN_DisconnectFromWiFi, s, <<word>>)
    /\ UNCHANGED <<friend_list, my_online_activity, save_archive, startup, registry, session_contexts, out_buffer>>

GetWiFiState(s) ==
    /\ Waiting
    /\ LET result == get_wifi_state(ndm_wifi_state, wifi_connection_status)
       IN  reply' = Reply(FrdN_GetWiFiState, Success, <<result>>, <<>>, 0)
    /\ request' = Request("frd:n", FrdN_GetWiFiState, s, <<>>)
    /\ svc_calls' = <<>>
    /\ UNCHANGED <<ctx_vars, out_buffer>>

\* command ids of frd:n that FrdNCommand::from maps to InvalidCommand
FrdNUnknownIds == {0, 5, 1025}

FrdNInvalidCommand(s, id) ==
    /\ Waiting
    /\ id \notin {FrdN_GetWiFiEvent, FrdN_ConnectToWiFi, FrdN_DisconnectFromWiFi,
                 FrdN_GetWiFiState}
    /\ request' = Request("frd:n", id, s, <<>>)
    /\ reply' = Reply(FrdN_InvalidCommand, InvalidCommand, <<>>, <<>>, 0)
    /\ svc_calls' = <<>>
    /\ UNCHANGED <<ctx_vars, out_buffer>>

----------------------------------------------------------------------------
(* Sessions (frd/context.rs) *)

\* the magic header of /1/account (0x2010102143415046) and of /1/mydata
\* (0x20101021444d5046)
AccountMagic == U64(Word(8208, 4129), Word(17217, 20550))
MyDataMagic == U64(Word(8208, 4129), Word(17485, 20550))

\* u64::from_le_bytes of eight bytes
u64_from_le_bytes(b) ==
    U64(Word(b[8] * 256 + b[7], b[6] * 256 + b[5]),
        Word(b[4] * 256 + b[3], b[2] * 256 + b[1]))

\* the eight bytes a file stores for a header
u64_to_le_bytes(x) == to_le_bytes(x[2]) \o to_le_bytes(x[1])

\* the three files of the save archive FriendServiceContext::new reads: the
\* first eight bytes of each, whether the strings of /1/account and
\* /1/mydata are valid UTF-16, and the entries /1/friendlist holds after its
\* first 16 bytes
SaveArchive(account_header, account_strings, friendlist_header, entries, mydata_header, mydata_strings) ==
    [account |-> [header |-> account_header, strings_ok |-> account_strings],
     friendlist |-> [header |-> friendlist_header, entries |-> entries],
     mydata |-> [header |-> mydata_header, strings_ok |-> mydata_strings]]

\* the header a friend list file is written with ("FPFL", 0x201010214c465046);
\* the program holds no constant for it
FriendListHeader == U64(Word(8208, 4129), Word(19526, 20550))

\* an archive whose three files are well formed
ValidSaveArchive(friends) ==
    SaveArchive(u64_to_le_bytes(AccountMagic), TRUE, u64_to_le_bytes(FriendListHeader),
                friends, u64_to_le_bytes(MyDataMagic), TRUE)

\* the calls of accept_session and close_session so far and the last of
\* them: its kind, the index it closed and the sessions it found
NoRegistryCalls(sessions) ==
    [accepts |-> sessions, closes |-> 0, last |-> "none", index |-> 0, pre |-> <<>>]

\* OnlineActivity::default(): the playing game is GameKey::default()
Default_OnlineActivity ==
    [playing_game |-> [title_id |-> 0, version |-> 0, unk |-> 0]]

\* GameAuthenticationData (frd/online_play/authentication.rs); the address and
\* the token are kept as short lists of bytes
GameAuthenticationData(return_code, http_status_code, address, port, retry, token, timestamp) ==
    [return_code |-> return_code, http_status_code |-> http_status_code,
     address |-> address, port |-> port, retry |-> retry, token |-> token,
     timestamp |-> timestamp]

Default_GameAuthenticationData == GameAuthenticationData(0, 0, <<>>, 0, 0, <<>>, 0)

\* ServiceLocateData (frd/online_play/locate.rs)
ServiceLocateData(return_code, http_status_code, svc_host, token, status_data, timestamp) ==
    [return_code |-> return_code, http_status_code |-> http_status_code,
     svc_host |-> svc_host, token |-> token, status_data |-> status_data,
     timestamp |-> timestamp]

Default_ServiceLocateData == ServiceLocateData(0, 0, <<>>, <<>>, <<>>, 0)

\* Option<T>: None carries a value of the type that is never read
OptionSome(value) == [some |-> TRUE, value |-> value]
OptionNone(unread) == [some |-> FALSE, value |-> unread]

SessionContext_new ==
    [last_game_authentication_response |-> OptionNone(Default_GameAuthenticationData),
     last_service_locator_response |-> OptionNone(Default_ServiceLocateData),
     static_buffer |-> <<>>,
     process_id |-> 0,
     client_sdk_version |-> 0,
     notification_mask |-> 0,
     server_time_interval |-> 0,
     client_event |-> OptionNone(0),
     client_event_queue |-> <<>>]

\* FriendServiceContext::new() followed by the accept of the first session
InitServing(friends) ==
    /\ ndm_wifi_state = 0
    /\ wifi_connection_status = Idle
    /\ friend_list = friends
    /\ my_online_activity = Default_OnlineActivity
    /\ save_archive = ValidSaveArchive(friend_list)
    /\ startup = Success
    /\ session_contexts = <<SessionContext_new>>
    /\ registry = NoRegistryCalls(Len(session_contexts))
    /\ request = NoRequest
    /\ reply = NoReply
    /\ svc_calls = <<>>
    /\ out_buffer = <<>>

\* session indices start at 0
Sessions == 0..(Len(session_contexts) - 1)

----------------------------------------------------------------------------
(* The WiFi service: requests to frd:n *)

\* the largest next-state word below 255 that DisconnectFromWiFi is sent
MaxNextState == 4

NextStateWords == 0..MaxNextState \cup {255, 256, 259, BigWord}

InitWifi == InitServing(<<>>)

NextWifi ==
    \/ \E s \in Sessions : GetWiFiEvent(s)
    \/ \E s \in Sessions, env \in Envs : ConnectToWiFi(s, env)
    \/ \E s \in Sessions, w \in NextStateWords, env \in Envs : DisconnectFromWiFi(s, w, env)
    \/ \E s \in Sessions : GetWiFiState(s)
    \/ \E s \in Sessions, id \in FrdNUnknownIds : FrdNInvalidCommand(s, id)
    \/ SendReply

SpecWifi == InitWifi /\ [][NextWifi]_vars

\* the composite WiFi state of the current state
WifiState == get_wifi_state(ndm_wifi_state, wifi_connection_status)

----------------------------------------------------------------------------
(* frd:u, the friend code commands (frd/frdu.rs) *)

\* FrdUCommand
FrdU_PrincipalIdToFriendCode == 36
FrdU_FriendCodeToPrincipalId == 37
FrdU_IsValidFriendCode == 38

\* command.push(bool)
BoolWord(b) == IF b THEN Word(0, 1) ELSE ZeroWord

\* command.push_u64 / command_parser.pop_u64: the low word, then the high word
PushU64(x) == <<x[2], x[1]>>
PopU64(words) == U64(words[2], words[1])

PrincipalIdToFriendCode(s, principal_id) ==
    /\ Waiting
    /\ LET friend_code_result == convert_principal_id_to_friend_code(principal_id)
       IN  reply' = IF friend_code_result.ok
                    THEN Reply(FrdU_PrincipalIdToFriendCode, Success,
                               PushU64(friend_code_result.value), <<>>, 0)
                    ELSE Reply(FrdU_PrincipalIdToFriendCode, friend_code_result.error,
                               PushU64(ZeroU64), <<>>, 0)
    /\ request' = Request("frd:u", FrdU_PrincipalIdToFriendCode, s, <<principal_id>>)
    /\ svc_calls' = <<>>
    /\ UNCHANGED <<ctx_vars, out_buffer>>

FriendCodeToPrincipalId(s, friend_code) ==
    /\ Waiting
    /\ LET principal_id_result == convert_friend_code_to_principal_id(friend_code)
       IN  reply' = IF principal_id_result.ok
                    THEN Reply(FrdU_FriendCodeToPrincipalId, Success,
                               <<principal_id_result.value>>, <<>>, 0)
                    ELSE Reply(FrdU_FriendCodeToPrincipalId, principal_id_result.error,
                               <<ZeroWord>>, <<>>, 0)
    /\ request' = Request("frd:u", FrdU_FriendCodeToPrincipalId, s, PushU64(friend_code))
    /\ svc_calls' = <<>>
    /\ UNCHANGED <<ctx_vars, out_buffer>>

IsValidFriendCode(s, friend_code) ==
    /\ Waiting
    /\ LET is_valid == validate_friend_code(friend_code)
       IN  reply' = Reply(FrdU_IsValidFriendCode, Success, <<BoolWord(is_valid)>>, <<>>, 0)
    /\ request' = Request("frd:u", FrdU_IsValidFriendCode, s, PushU64(friend_code))
    /\ svc_calls' = <<>>
    /\ UNCHANGED <<ctx_vars, out_buffer>>

----------------------------------------------------------------------------
(* The friend code commands on principal ids and friend codes of all shapes *)

\* the largest value of bits 32..47 of the friend codes the model draws
MaxCodeBits32To47 == 255

\* the largest value of bits 48..63 of the friend codes the model draws
MaxCodeBits48To63 == 1

FriendCodes ==
    {U64(Word(h, c), p) : h \in 0..MaxCodeBits48To63, c \in 0..MaxCodeBits32To47,
                          p \in PrincipalIds}

InitCodec == InitServing(<<>>)

NextCodec ==
    \/ Waiting /\ \E s \in Sessions, p \in PrincipalIds : PrincipalIdToFriendCode(s, p)
    \/ Waiting /\ \E s \in Sessions, c \in FriendCodes : FriendCodeToPrincipalId(s, c)
    \/ Waiting /\ \E s \in Sessions, c \in FriendCodes : IsValidFriendCode(s, c)
    \/ SendReply

SpecCodec == InitCodec /\ [][NextCodec]_vars

----------------------------------------------------------------------------
(* set_wifi_connection_status called on a context in any WiFi state, as    *)
(* the tests of frd/wifi/state.rs call it                                  *)

\* the largest ndm state below 255 the calls start from
MaxNdmState == 3

NdmStates == 0..MaxNdmState \cup {255}

SetWifiConnectionStatus(next, sig_ok) ==
    /\ LET r == set_wifi_connection_status(ndm_wifi_state, wifi_connection_status,
                                           next, sig_ok)
       IN  /\ wifi_connection_status' = r.status
           /\ svc_calls' = r.calls
           /\ reply' = ErrReply(-1, r.result)
    /\ request' = Request("set_wifi_connection_status", -1, 0, <<next>>)
    /\ UNCHANGED <<ndm_wifi_state, friend_list, my_online_activity, save_archive, startup, registry, session_contexts, out_buffer>>

InitSetStatus ==
    /\ ndm_wifi_state \in NdmStates
    /\ wifi_connection_status \in WiFiConnectionStatus
    /\ friend_list = <<>>
    /\ my_online_activity = Default_OnlineActivity
    /\ save_archive = ValidSaveArchive(friend_list)
    /\ startup = Success
    /\ session_contexts = <<>>
    /\ registry = NoRegistryCalls(Len(session_contexts))
    /\ request = NoRequest
    /\ reply = NoReply
    /\ svc_calls = <<>>
    /\ out_buffer = <<>>

NextSetStatus ==
    \E next \in WiFiConnectionStatus, sig_ok \in BOOLEAN :
        SetWifiConnectionStatus(next, sig_ok)

SpecSetStatus == InitSetStatus /\ [][NextSetStatus]_vars

----------------------------------------------------------------------------
(* The friend list (frd/save/friend_list.rs, frd/context).  The records of *)
(* the ctr crate keep the fields the handlers read; timestamps are left    *)
(* out.                                                                    *)

MAX_FRIEND_COUNT == 100

Some(value) == [some |-> TRUE, value |-> value]
None == [some |-> FALSE, value |-> <<>>]

\* the least element of a non-empty set of numbers
Least(S) == CHOOSE x \in S : \A y \in S : x <= y

\* a mutant of Take: the whole list is taken
Take_whole_list(list, n) == list

\* iter().take(n)
Take(list, n) == SubSeq(list, 1, Min(n, Len(list)))

FriendKey(principal_id, padding, local_friend_code) ==
    [principal_id |-> principal_id, padding |-> padding,
     local_friend_code |-> local_friend_code]

FriendProfile(region, country, area, language, platform, padding) ==
    [region |-> region, country |-> country, area |-> area, language |-> language,
     platform |-> platform, padding |-> padding]

GameKey(title_id, version, unk) ==
    [title_id |-> title_id, version |-> version, unk |-> unk]

\* Default::default() of the records
Default_FriendKey == FriendKey(0, 0, 0)
Default_FriendProfile == FriendProfile(0, 0, 0, 0, 0, <<0, 0, 0>>)
Default_GameKey == GameKey(0, 0, 0)
Default_FriendComment == <<>>
Default_ScreenName == <<>>
Default_Mii == [mii_id |-> 0]
Default_TrivialCharacterSet == 0
Default_FriendPresence == [presence |-> 0]

FriendEntry(friend_key, friend_relationship, friend_profile, favorite_game, comment, mii, screen_name, character_set) ==
    [friend_key |-> friend_key, friend_relationship |-> friend_relationship,
     friend_profile |-> friend_profile, favorite_game |-> favorite_game,
     comment |-> comment, mii |-> mii, screen_name |-> screen_name,
     character_set |-> character_set]

FriendInfo(friend_key, friend_relationship, friend_profile, favorite_game, comment, screen_name, character_set, mii) ==
    [friend_key |-> friend_key, friend_relationship |-> friend_relationship,
     unk3 |-> [friend_profile |-> friend_profile, favorite_game |-> favorite_game,
               comment |-> comment],
     screen_name |-> screen_name, character_set |-> character_set, mii |-> mii]

Default_FriendInfo ==
    FriendInfo(Default_FriendKey, 0, Default_FriendProfile, Default_GameKey,
               Default_FriendComment, Default_ScreenName, Default_TrivialCharacterSet,
               Default_Mii)

\* impl From<FriendEntry> for FriendInfo
FriendInfo_from(friend_entry) ==
    FriendInfo(friend_entry.friend_key, 3,
               FriendProfile(friend_entry.friend_profile.region,
                             friend_entry.friend_profile.country,
                             friend_entry.friend_profile.area,
                             friend_entry.friend_profile.language,
                             friend_entry.friend_profile.platform, <<0, 0, 0>>),
               friend_entry.favorite_game, friend_entry.comment,
               friend_entry.screen_name, friend_entry.character_set, friend_entry.mii)

FRIEND_ATTRIBUTE == <<0, 3, 0, 1, 1, 0>>

\* a mutant of get_attribute: level 5 is taken for a level above the table
get_attribute_above_four(friend) ==
    IF friend.friend_relationship > 4 THEN 3
    ELSE FRIEND_ATTRIBUTE[friend.friend_relationship + 1]

\* FriendEntry::get_attribute
get_attribute(friend) ==
    IF friend.friend_relationship > 5 THEN 3
    ELSE FRIEND_ATTRIBUTE[friend.friend_relationship + 1]

\* a lookup that gives the first friend of the list for a key no friend has
get_friend_by_friend_key_or_first(friends, friend_key) ==
    LET found == {i \in 1..Len(friends) : friends[i].friend_key = friend_key}
    IN  IF found # {} THEN Some(friends[Least(found)])
        ELSE IF Len(friends) > 0 THEN Some(friends[1]) ELSE None

\* FriendServiceContext::get_friend_by_friend_key; `==' of FriendKey compares
\* the whole key
get_friend_by_friend_key(friends, friend_key) ==
    LET found == {i \in 1..Len(friends) : friends[i].friend_key = friend_key}
    IN  IF found = {} THEN None ELSE Some(friends[Least(found)])

\* context.friend_list.iter().find_map(..) of GetFriendInfo: the first friend
\* with the principal id of the key, as a FriendInfo
find_friend_info(friends, friend_key) ==
    LET found == {i \in 1..Len(friends) :
                     friends[i].friend_key.principal_id = friend_key.principal_id}
    IN  IF found = {} THEN None ELSE Some(FriendInfo_from(friends[Least(found)]))

\* a copy that writes the data into the buffer of every session
copy_into_every_session_static_buffer(contexts, session_index, data) ==
    [i \in 1..Len(contexts) |-> [contexts[i] EXCEPT !.static_buffer = data]]

\* a copy that writes the data over the head of the buffer without clearing
\* it: what was beyond the length of the data stays
copy_into_session_static_buffer_without_clear(contexts, session_index, data) ==
    [contexts EXCEPT ![session_index + 1].static_buffer =
         data \o SubSeq(@, Len(data) + 1, Len(@))]

\* FriendServiceContext::copy_into_session_static_buffer: the buffer of the
\* session is cleared and holds the serialized data, which is returned
copy_into_session_static_buffer(contexts, session_index, data) ==
    [contexts EXCEPT ![session_index + 1].static_buffer = data]

----------------------------------------------------------------------------
(* frd:u, the batch queries (frd/frdu.rs) *)

\* FrdUCommand
FrdU_GetFriendPresence == 18
FrdU_GetFriendScreenName == 19
FrdU_GetFriendMii == 20
FrdU_GetFriendProfile == 21
FrdU_GetFriendRelationship == 22
FrdU_GetFriendAttributeFlags == 23
FrdU_GetFriendPlayingGame == 24
FrdU_GetFriendFavoriteGame == 25
FrdU_GetFriendInfo == 26
FrdU_UnscrambleLocalFriendCode == 28
FrdU_GetFriendComment == 49

\* command_parser.validate_header
validate_header(header, normal, translate) == header = Header(normal, translate)

\* a check of the slot that lets every slot through
validate_buffer_id_any_slot(buffer_id, expected) == buffer_id \in {0, 1}

\* command_parser.validate_buffer_id
validate_buffer_id(buffer_id, expected) == buffer_id = expected

\* a validation returned Err: the handler returns before it has done anything
ShapeError(req) ==
    /\ request' = req
    /\ reply' = ErrReply(req.command_id, GenericInvalidCommand)
    /\ svc_calls' = <<>>
    /\ out_buffer' = req.mut_buffer
    /\ UNCHANGED ctx_vars

\* copy_into_session_static_buffer(session_index, &result) and the success
\* reply that pushes the returned buffer
ReplyStaticBuffer(req, result) ==
    /\ request' = req
    /\ session_contexts' =
           copy_into_session_static_buffer(session_contexts, req.session_index, result)
    /\ reply' = Reply(req.command_id, Success, <<>>,
                      <<session_contexts'[req.session_index + 1].static_buffer>>, 0)
    /\ svc_calls' = <<>>
    /\ out_buffer' = req.mut_buffer
    /\ UNCHANGED <<ndm_wifi_state, wifi_connection_status, friend_list, my_online_activity, save_archive, startup, registry>>

GetFriendPresence(s, header, buffer_id, max, friend_keys) ==
    /\ Waiting
    /\ LET req == IpcRequest("frd:u", FrdU_GetFriendPresence, s, header, <<max>>, buffer_id, friend_keys, <<>>)
       IN  IF ~(validate_header(header, 1, 2) /\ validate_buffer_id(buffer_id, 0))
           THEN ShapeError(req)
           ELSE LET max_out_count == Min(max, MAX_FRIEND_COUNT)
                    taken == Take(friend_keys, max_out_count)
                    result ==
                        [i \in 1..Len(taken) |->
                            Default_FriendPresence]
                IN  ReplyStaticBuffer(req, result)

GetFriendProfile(s, header, buffer_id, max, friend_keys) ==
    /\ Waiting
    /\ LET req == IpcRequest("frd:u", FrdU_GetFriendProfile, s, header, <<max>>, buffer_id, friend_keys, <<>>)
       IN  IF ~(validate_header(header, 1, 2) /\ validate_buffer_id(buffer_id, 0))
           THEN ShapeError(req)
           ELSE LET max_out_count == Min(max, MAX_FRIEND_COUNT)
                    taken == Take(friend_keys, max_out_count)
                    result ==
                        [i \in 1..Len(taken) |->
                            LET friend == get_friend_by_friend_key(friend_list, taken[i])
                            IN  IF friend.some THEN friend.value.friend_profile ELSE Default_FriendProfile]
                IN  ReplyStaticBuffer(req, result)

GetFriendRelationship(s, header, buffer_id, max, friend_keys) ==
    /\ Waiting
    /\ LET req == IpcRequest("frd:u", FrdU_GetFriendRelationship, s, header, <<max>>, buffer_id, friend_keys, <<>>)
       IN  IF ~(validate_header(header, 1, 2) /\ validate_buffer_id(buffer_id, 0))
           THEN ShapeError(req)
           ELSE LET max_out_count == Min(max, MAX_FRIEND_COUNT)
                    taken == Take(friend_keys, max_out_count)
                    result ==
                        [i \in 1..Len(taken) |->
                            LET friend == get_friend_by_friend_key(friend_list, taken[i])
                            IN  IF friend.some THEN friend.value.friend_relationship ELSE 0]
                IN  ReplyStaticBuffer(req, result)

GetFriendAttributeFlags(s, header, buffer_id, max, friend_keys) ==
    /\ Waiting
    /\ LET req == IpcRequest("frd:u", FrdU_GetFriendAttributeFlags, s, header, <<max>>, buffer_id, friend_keys, <<>>)
       IN  IF ~(validate_header(header, 1, 2) /\ validate_buffer_id(buffer_id, 0))
           THEN ShapeError(req)
           ELSE LET max_out_count == Min(max, MAX_FRIEND_COUNT)
                    taken == Take(friend_keys, max_out_count)
                    result ==
                        [i \in 1..Len(taken) |->
                            LET friend == get_friend_by_friend_key(friend_list, taken[i])
                            IN  IF friend.some THEN get_attribute(friend.value) ELSE 0]
                IN  ReplyStaticBuffer(req, result)

GetFriendFavoriteGame(s, header, buffer_id, max, friend_keys) ==
    /\ Waiting
    /\ LET req == IpcRequest("frd:u", FrdU_GetFriendFavoriteGame, s, header, <<max>>, buffer_id, friend_keys, <<>>)
       IN  IF ~(validate_header(header, 1, 2) /\ validate_buffer_id(buffer_id, 0))
           THEN ShapeError(req)
           ELSE LET max_out_count == Min(max, MAX_FRIEND_COUNT)
                    taken == Take(friend_keys, max_out_count)
                    result ==
                        [i \in 1..Len(taken) |->
                            LET friend == get_friend_by_friend_key(friend_list, taken[i])
                            IN  IF friend.some THEN friend.value.favorite_game ELSE Default_GameKey]
                IN  ReplyStaticBuffer(req, result)

GetFriendComment(s, header, buffer_id, max, ignored, friend_keys) ==
    /\ Waiting
    /\ LET req == IpcRequest("frd:u", FrdU_GetFriendComment, s, header, <<max, ignored>>, buffer_id, friend_keys, <<>>)
       IN  IF ~(validate_header(header, 2, 2) /\ validate_buffer_id(buffer_id, 0))
           THEN ShapeError(req)
           ELSE LET friend_key_count == Min(max, MAX_FRIEND_COUNT)
                    taken == Take(friend_keys, friend_key_count)
                    result ==
                        [i \in 1..Len(taken) |->
                            LET friend == get_friend_by_friend_key(friend_list, taken[i])
                            IN  IF friend.some THEN friend.value.comment ELSE Default_FriendComment]
                IN  ReplyStaticBuffer(req, result)

\* ScrambledFriendCode of the ctr crate, as the tests of frd/frdu.rs use it:
\* the code is kept xor-ed with the key
ScrambledFriendCode_new(friend_code, xor_key) ==
    [friend_code |-> Xor16(friend_code, xor_key), xor_key |-> xor_key]

\* a reading that takes the code as it was sent, without the key
get_friend_code_as_sent(scrambled_friend_code) ==
    scrambled_friend_code.friend_code

get_unscrambled_friend_code(scrambled_friend_code) ==
    Xor16(scrambled_friend_code.friend_code, scrambled_friend_code.xor_key)

UnscrambleLocalFriendCode(s, header, buffer_id, max, scrambled_friend_codes) ==
    /\ Waiting
    /\ LET req == IpcRequest("frd:u", FrdU_UnscrambleLocalFriendCode, s, header, <<max>>, buffer_id, scrambled_friend_codes, <<>>)
       IN  IF ~(validate_header(header, 1, 2) /\ validate_buffer_id(buffer_id, 1))
           THEN ShapeError(req)
           ELSE LET max_out_count == Min(max, MAX_FRIEND_COUNT)
                    taken == Take(scrambled_friend_codes, max_out_count)
                    result ==
                        [i \in 1..Len(taken) |->
                            LET friend_code == get_unscrambled_friend_code(taken[i])
                                is_in_friend_list ==
                                    \E j \in 1..Len(friend_list) :
                                        friend_list[j].friend_key.local_friend_code = friend_code
                            IN  IF is_in_friend_list THEN friend_code ELSE 0]
                IN  ReplyStaticBuffer(req, result)

GetFriendScreenName(s, header, buffer_id, max_screen_name_out, max_string_language_out, count, friend_keys) ==
    /\ Waiting
    /\ LET req == IpcRequest("frd:u", FrdU_GetFriendScreenName, s, header,
                             <<max_screen_name_out, max_string_language_out, count, 0, 0>>,
                             buffer_id, friend_keys, <<>>)
       IN  IF ~(validate_header(header, 5, 2) /\ validate_buffer_id(buffer_id, 0))
           THEN ShapeError(req)
           ELSE LET friend_key_count == Min(count, MAX_FRIEND_COUNT)
                    max_out_count ==
                        Min(friend_key_count,
                            Min(max_screen_name_out, max_string_language_out))
                    taken == Take(friend_keys, max_out_count)
                    screen_names ==
                        [i \in 1..Len(taken) |->
                            LET friend == get_friend_by_friend_key(friend_list, taken[i])
                            IN  IF friend.some THEN friend.value.screen_name
                                ELSE Default_ScreenName]
                    character_sets ==
                        [i \in 1..Len(taken) |->
                            LET friend == get_friend_by_friend_key(friend_list, taken[i])
                            IN  IF friend.some THEN friend.value.character_set
                                ELSE Default_TrivialCharacterSet]
                    result == screen_names \o character_sets
                    screen_name_buffer_length == Len(screen_names)
                IN  /\ request' = req
                    /\ session_contexts' =
                           copy_into_session_static_buffer(session_contexts, s, result)
                    /\ LET static_buffer == session_contexts'[s + 1].static_buffer
                       IN  reply' = Reply(FrdU_GetFriendScreenName, Success, <<>>,
                                          <<SubSeq(static_buffer, 1,
                                                   screen_name_buffer_length),
                                            SubSeq(static_buffer,
                                                   screen_name_buffer_length + 1,
                                                   Len(static_buffer))>>, 0)
                    /\ svc_calls' = <<>>
                    /\ out_buffer' = req.mut_buffer
                    /\ UNCHANGED <<ndm_wifi_state, wifi_connection_status, friend_list, my_online_activity, save_archive, startup, registry>>

\* a mutant of zip_take_count: the requested maximum is not applied
zip_take_count_no_take(friend_keys, out, max_out_count) ==
    Min(Len(friend_keys), Len(out))

\* the number of pairs friend_keys.iter().zip(out.iter_mut()).take(max_out_count)
\* yields
zip_take_count(friend_keys, out, max_out_count) ==
    Min(max_out_count, Min(Len(friend_keys), Len(out)))

\* the success reply that pushes the write buffer with out_count elements
ReplyWriteBuffer(req, out_count, out) ==
    /\ request' = req
    /\ reply' = Reply(req.command_id, Success, <<>>, <<>>, out_count)
    /\ out_buffer' = out
    /\ svc_calls' = <<>>
    /\ UNCHANGED ctx_vars

GetFriendMii(s, header, buffer_id, max, friend_keys, friend_miis) ==
    /\ Waiting
    /\ LET req == IpcRequest("frd:u", FrdU_GetFriendMii, s, header, <<max>>, buffer_id, friend_keys, friend_miis)
       IN  IF ~(validate_header(header, 1, 4) /\ validate_buffer_id(buffer_id, 0))
           THEN ShapeError(req)
           ELSE LET max_out_count == Min(max, MAX_FRIEND_COUNT)
                    out_count == zip_take_count(friend_keys, friend_miis, max_out_count)
                    written ==
                        [i \in 1..Len(friend_miis) |->
                            IF i > out_count THEN friend_miis[i]
                            ELSE
                                LET friend == get_friend_by_friend_key(friend_list, friend_keys[i])
                                IN  IF friend.some THEN friend.value.mii ELSE Default_Mii]
                IN  ReplyWriteBuffer(req, out_count, written)

GetFriendPlayingGame(s, header, buffer_id, max, friend_keys, game_keys) ==
    /\ Waiting
    /\ LET req == IpcRequest("frd:u", FrdU_GetFriendPlayingGame, s, header, <<max>>, buffer_id, friend_keys, game_keys)
       IN  IF ~(validate_header(header, 1, 4) /\ validate_buffer_id(buffer_id, 0))
           THEN ShapeError(req)
           ELSE LET max_out_count == Min(max, MAX_FRIEND_COUNT)
                    out_count == zip_take_count(friend_keys, game_keys, max_out_count)
                    written ==
                        [i \in 1..Len(game_keys) |->
                            IF i > out_count THEN game_keys[i]
                            ELSE
                                Default_GameKey]
                IN  ReplyWriteBuffer(req, out_count, written)

GetFriendInfo(s, header, buffer_id, max, unk1, character_set, friend_keys, friend_info_out) ==
    /\ Waiting
    /\ LET req == IpcRequest("frd:u", FrdU_GetFriendInfo, s, header, <<max, unk1, character_set>>, buffer_id, friend_keys, friend_info_out)
       IN  IF ~(validate_header(header, 3, 4) /\ validate_buffer_id(buffer_id, 0))
           THEN ShapeError(req)
           ELSE LET max_out_count == Min(max, MAX_FRIEND_COUNT)
                    out_count == zip_take_count(friend_keys, friend_info_out, max_out_count)
                    written ==
                        [i \in 1..Len(friend_info_out) |->
                            IF i > out_count THEN friend_info_out[i]
                            ELSE
                                LET friend_info == find_friend_info(friend_list, friend_keys[i])
                                IN  IF friend_info.some THEN friend_info.value ELSE Default_FriendInfo]
                IN  ReplyWriteBuffer(req, out_count, written)

----------------------------------------------------------------------------
(* The batch queries on friend lists, key lists and output buffers of all  *)
(* shapes                                                                  *)

\* the longest friend list the model starts from
MaxFriends == 2

\* the longest of the short key lists the model draws
MaxKeys == 2

\* the n-th friend of the save file
FriendOf(n) ==
    FriendEntry(FriendKey(n, 0, 11 * n), (3 * n) - 2,
                FriendProfile(n, n + 10, n + 20, n + 30, n + 40, <<n, n, n>>),
                GameKey(100 + n, n, 0), [i \in 1..n |-> 96 + i], [mii_id |-> n],
                [i \in 1..n |-> 64 + i], n)

FriendLists == {[i \in 1..n |-> FriendOf(i)] : n \in 0..MaxFriends}

\* the keys of the first two friends, and a key with the principal id of the
\* first friend and another local friend code
FriendKeys ==
    {FriendOf(1).friend_key, FriendOf(2).friend_key, FriendKey(1, 0, 12)}

LongKeyList ==
    [i \in 1..(MAX_FRIEND_COUNT + 1) |->
        IF i % 2 = 1 THEN FriendOf(1).friend_key ELSE FriendKey(1, 0, 12)]

BatchInput(max, friend_keys) == [max |-> max, friend_keys |-> friend_keys]

BatchInputs ==
    {BatchInput(max, keys) : max \in 0..MaxKeys \cup {BigWord},
                             keys \in SeqsUpTo(FriendKeys, MaxKeys)}
    \cup {BatchInput(max, LongKeyList) :
              max \in {MAX_FRIEND_COUNT - 1, MAX_FRIEND_COUNT + 1, BigWord}}

Shape(header, buffer_id) == [header |-> header, buffer_id |-> buffer_id]

\* the shape a command expects, and shapes with one part wrong
Shapes(normal, translate, buffer_id) ==
    {Shape(Header(normal, translate), buffer_id),
     Shape(Header(normal + 1, translate), buffer_id),
     Shape(Header(normal, translate + 2), buffer_id),
     Shape(Header(normal, translate), 1 - buffer_id)}

\* a request of a wrong shape is drawn with one payload only
Drawn(shape, normal, translate, buffer_id, in) ==
    \/ shape = Shape(Header(normal, translate), buffer_id)
    \/ in = BatchInput(0, <<>>)

ScrambledOf(friend_keys) ==
    [i \in 1..Len(friend_keys) |->
        ScrambledFriendCode_new(friend_keys[i].local_friend_code, 4660)]

\* what the caller's buffer holds before the request
StaleMii == [mii_id |-> 255]
StaleGameKey == GameKey(255, 255, 255)
StaleFriendInfo ==
    FriendInfo(FriendKey(255, 255, 255), 255, Default_FriendProfile, StaleGameKey,
               <<255>>, <<255>>, 255, StaleMii)

\* the capacities of the caller's buffer drawn with a key list
Capacities(friend_keys) ==
    IF friend_keys = LongKeyList THEN {MAX_FRIEND_COUNT + 1}
    ELSE 0..MaxKeys

OutBuffer(stale, capacity) == [i \in 1..capacity |-> stale]

\* the limits of the two output arrays of GetFriendScreenName
ScreenNameLimits == {<<BigWord, BigWord>>, <<1, BigWord>>, <<BigWord, 0>>}

InitBatch == \E friends \in FriendLists : InitServing(friends)

NextBatch ==
    \/ Waiting /\ \E s \in Sessions, in \in BatchInputs, sh \in Shapes(1, 2, 0) :
          /\ Drawn(sh, 1, 2, 0, in)
          /\ GetFriendPresence(s, sh.header, sh.buffer_id, in.max, in.friend_keys)
    \/ Waiting /\ \E s \in Sessions, in \in BatchInputs, sh \in Shapes(5, 2, 0),
          lim \in ScreenNameLimits :
          /\ Drawn(sh, 5, 2, 0, in)
          /\ GetFriendScreenName(s, sh.header, sh.buffer_id, lim[1], lim[2], in.max,
                                 in.friend_keys)
    \/ Waiting /\ \E s \in Sessions, in \in BatchInputs, sh \in Shapes(1, 4, 0) :
          \E capacity \in Capacities(in.friend_keys) :
          /\ Drawn(sh, 1, 4, 0, in)
          /\ GetFriendMii(s, sh.header, sh.buffer_id, in.max, in.friend_keys,
                          OutBuffer(StaleMii, capacity))
    \/ Waiting /\ \E s \in Sessions, in \in BatchInputs, sh \in Shapes(1, 2, 0) :
          /\ Drawn(sh, 1, 2, 0, in)
          /\ GetFriendProfile(s, sh.header, sh.buffer_id, in.max, in.friend_keys)
    \/ Waiting /\ \E s \in Sessions, in \in BatchInputs, sh \in Shapes(1, 2, 0) :
          /\ Drawn(sh, 1, 2, 0, in)
          /\ GetFriendRelationship(s, sh.header, sh.buffer_id, in.max, in.friend_keys)
    \/ Waiting /\ \E s \in Sessions, in \in BatchInputs, sh \in Shapes(1, 2, 0) :
          /\ Drawn(sh, 1, 2, 0, in)
          /\ GetFriendAttributeFlags(s, sh.header, sh.buffer_id, in.max, in.friend_keys)
    \/ Waiting /\ \E s \in Sessions, in \in BatchInputs, sh \in Shapes(1, 4, 0) :
          \E capacity \in Capacities(in.friend_keys) :
          /\ Drawn(sh, 1, 4, 0, in)
          /\ GetFriendPlayingGame(s, sh.header, sh.buffer_id, in.max, in.friend_keys,
                                  OutBuffer(StaleGameKey, capacity))
    \/ Waiting /\ \E s \in Sessions, in \in BatchInputs, sh \in Shapes(1, 2, 0) :
          /\ Drawn(sh, 1, 2, 0, in)
          /\ GetFriendFavoriteGame(s, sh.header, sh.buffer_id, in.max, in.friend_keys)
    \/ Waiting /\ \E s \in Sessions, in \in BatchInputs, sh \in Shapes(3, 4, 0) :
          \E capacity \in Capacities(in.friend_keys) :
          /\ Drawn(sh, 3, 4, 0, in)
          /\ GetFriendInfo(s, sh.header, sh.buffer_id, in.max, 0, 0, in.friend_keys,
                           OutBuffer(StaleFriendInfo, capacity))
    \/ Waiting /\ \E s \in Sessions, in \in BatchInputs, sh \in Shapes(1, 2, 1) :
          /\ Drawn(sh, 1, 2, 1, in)
          /\ UnscrambleLocalFriendCode(s, sh.header, sh.buffer_id, in.max,
                                       ScrambledOf(in.friend_keys))
    \/ Waiting /\ \E s \in Sessions, in \in BatchInputs, sh \in Shapes(2, 2, 0) :
          /\ Drawn(sh, 2, 2, 0, in)
          /\ GetFriendComment(s, sh.header, sh.buffer_id, in.max, 0, in.friend_keys)
    \/ SendReply

SpecBatch == InitBatch /\ [][NextBatch]_vars

----------------------------------------------------------------------------
(* GetFriendAttributeFlags on a friend of every relationship level *)

\* friend_relationship is a u8
Relationships == 0..255

AttrInputs ==
    {BatchInput(max, keys) : max \in {0, 1, BigWord}, keys \in SeqsUpTo(FriendKeys, 1)}

InitAttr ==
    \E r \in Relationships :
        InitServing(<<[FriendOf(1) EXCEPT !.friend_relationship = r]>>)

NextAttr ==
    \/ Waiting /\ \E s \in Sessions, in \in AttrInputs, sh \in Shapes(1, 2, 0) :
          /\ Drawn(sh, 1, 2, 0, in)
          /\ GetFriendAttributeFlags(s, sh.header, sh.buffer_id, in.max, in.friend_keys)
    \/ SendReply

SpecAttr == InitAttr /\ [][NextAttr]_vars

----------------------------------------------------------------------------
(* Claims about the WiFi state *)

\* the composite WiFi status as the specification tabulates it, for the ndm
\* states 0, 1 and 2
CompositeTable(ndm, status) ==
    IF ndm \in {0, 1} THEN (IF status = Idle THEN 3 ELSE 2)
    ELSE (IF status = Idle THEN 1 ELSE 0)

IsFrdN(command_id) == request.service = "frd:n" /\ request.command_id = command_id

\* C8: for ndm state 0 or 1 the composite WiFi status is 3 when the status is
\* Idle and 2 otherwise, for ndm state 2 it is 1 when Idle and 0 otherwise;
\* GetWiFiState replies success with exactly this value and changes nothing
\* of the context.
C8_GetWiFiStateIsTheTable ==
    [][(request'.service = "frd:n" /\ request'.command_id = FrdN_GetWiFiState
        /\ request # request')
       => /\ UNCHANGED ctx_vars
          /\ reply'.result = Success
          /\ Len(reply'.words) = 1
          /\ ndm_wifi_state \in 0..2
               => reply'.words[1] = CompositeTable(ndm_wifi_state, wifi_connection_status)
          /\ \A n \in 0..2 : \A st \in WiFiConnectionStatus :
               get_wifi_state(n, st) = CompositeTable(n, st)]_vars

\* C8 witness: GetWiFiState answered 0 in ndm state 2 with the status Connected
C8_Witness ==
    /\ IsFrdN(FrdN_GetWiFiState)
    /\ ndm_wifi_state = 2
    /\ wifi_connection_status = Connected
    /\ reply.result = Success
    /\ reply.words = <<0>>

\* C9: set_wifi_connection_status(next) calls signal_event exactly once when
\* next differs from the current status and the composite status before the
\* swap differs from the one after it, and not at all otherwise; when it
\* succeeds the stored status is next (and one signal was delivered in the
\* first case); the ndm state is not touched.
C9_SetStatusSignalsOnCompositeChange ==
    request.service = "set_wifi_connection_status" =>
        LET cur == request.pre.status
            ndm == request.pre.ndm
            next == request.words[1]
            changes == /\ next # cur
                       /\ get_wifi_state(ndm, cur) # get_wifi_state(ndm, next)
        IN  /\ CallsOf(svc_calls, "signal_event") = (IF changes THEN 1 ELSE 0)
            /\ Len(svc_calls) = CallsOf(svc_calls, "signal_event")
            /\ reply.result = Success =>
                 /\ wifi_connection_status = next
                 /\ Signals(svc_calls) = (IF changes THEN 1 ELSE 0)
            /\ ndm_wifi_state = ndm

\* C9 witness: Connecting to Connected in ndm state 1 changed the status
\* without a signal
C9_Witness ==
    /\ request.service = "set_wifi_connection_status"
    /\ request.pre = [ndm |-> 1, status |-> Connecting]
    /\ request.words = <<Connected>>
    /\ wifi_connection_status = Connected
    /\ svc_calls = <<>>
    /\ reply.result = Success

\* C9 second case: Idle to Connecting in ndm state 1 signalled once
C9_WitnessSignal ==
    /\ request.service = "set_wifi_connection_status"
    /\ request.pre = [ndm |-> 1, status |-> Idle]
    /\ request.words = <<Connecting>>
    /\ wifi_connection_status = Connecting
    /\ svc_calls = <<SignalWifiEvent(TRUE)>>

\* C10 (as claimed): whenever the composite WiFi status after a ConnectToWiFi
\* or DisconnectFromWiFi request differs from the one before it, the WiFi
\* event was signalled at least once during the request (every call of
\* signal_event is counted here, also one the kernel answered with an error).
C10_NoMissedTransition ==
    (IsFrdN(FrdN_ConnectToWiFi) \/ IsFrdN(FrdN_DisconnectFromWiFi)) =>
        (WifiState # get_wifi_state(request.pre.ndm, request.pre.status)
            => CallsOf(svc_calls, "signal_event") >= 1)

----------------------------------------------------------------------------
(* C6: PrincipalIdToFriendCode followed by the conversion back gives the     *)
(* principal id again for every non-zero principal id, and principal id 0   *)
(* is refused with InvalidPrincipalId.                                      *)

C6_FriendCodeRoundTrip ==
    reply.command_id = FrdU_PrincipalIdToFriendCode =>
        LET id == request.words[1]
        IN  /\ id # ZeroWord =>
                /\ reply.result = Success
                /\ convert_friend_code_to_principal_id(PopU64(reply.words)) = Ok(id)
                /\ AsU32(PopU64(reply.words)) = id
            /\ id = ZeroWord =>
                /\ reply.result = InvalidPrincipalId
                /\ convert_principal_id_to_friend_code(id) = Err(InvalidPrincipalId)

\* principal id 0xaabbccdd was converted to the friend code 0x38aabbccdd
C6_Witness ==
    /\ reply.command_id = FrdU_PrincipalIdToFriendCode
    /\ request.words[1] = Word(43707, 52445)
    /\ reply.result = Success
    /\ reply.words = PushU64(U64(Word(0, 56), Word(43707, 52445)))

(* C7: a friend code is valid exactly when it is not 0, its low 32 bits are *)
(* not 0 and it equals, as a whole 64-bit value, the friend code of its low *)
(* 32 bits; the conversion to a principal id gives the low 32 bits of a     *)
(* valid code and InvalidFriendCode for every other code.                   *)

C7_IsValid(code) ==
    /\ code # ZeroU64
    /\ AsU32(code) # ZeroWord
    /\ convert_principal_id_to_friend_code(AsU32(code)) = Ok(code)

C7_ValidateFriendCode ==
    /\ reply.command_id = FrdU_IsValidFriendCode =>
        /\ reply.result = Success
        /\ reply.words = <<BoolWord(C7_IsValid(PopU64(request.words)))>>
    /\ reply.command_id = FrdU_FriendCodeToPrincipalId =>
        LET code == PopU64(request.words)
        IN  IF C7_IsValid(code)
            THEN reply.result = Success /\ reply.words = <<AsU32(code)>>
            ELSE reply.result = InvalidFriendCode

\* a friend code with the right checksum and a bit set above it was refused
C7_Witness ==
    /\ reply.command_id = FrdU_FriendCodeToPrincipalId
    /\ PopU64(request.words) = U64(Word(1, 56), Word(43707, 52445))
    /\ reply.result = InvalidFriendCode

----------------------------------------------------------------------------
(* Claims about the batch queries *)

\* the header and the slot of the input list each batch query expects
Signature(command_id) ==
    CASE command_id = FrdU_GetFriendScreenName -> Shape(Header(5, 2), 0)
      [] command_id = FrdU_GetFriendComment -> Shape(Header(2, 2), 0)
      [] command_id = FrdU_GetFriendInfo -> Shape(Header(3, 4), 0)
      [] command_id \in {FrdU_GetFriendMii, FrdU_GetFriendPlayingGame} ->
             Shape(Header(1, 4), 0)
      [] command_id = FrdU_UnscrambleLocalFriendCode -> Shape(Header(1, 2), 1)
      [] OTHER -> Shape(Header(1, 2), 0)

WellShaped(req) == Shape(req.header, req.buffer_id) = Signature(req.command_id)

\* the requested maximum of a batch query
RequestedMax(req) ==
    IF req.command_id = FrdU_GetFriendScreenName THEN req.words[3] ELSE req.words[1]

StaticBufferQueries ==
    {FrdU_GetFriendPresence, FrdU_GetFriendProfile, FrdU_GetFriendRelationship,
     FrdU_GetFriendAttributeFlags, FrdU_GetFriendFavoriteGame, FrdU_GetFriendComment,
     FrdU_UnscrambleLocalFriendCode}

WriteBufferQueries == {FrdU_GetFriendMii, FrdU_GetFriendPlayingGame, FrdU_GetFriendInfo}

\* the batch queries that read the data of a friend into one array
FriendDataQueries ==
    {FrdU_GetFriendProfile, FrdU_GetFriendRelationship, FrdU_GetFriendAttributeFlags,
     FrdU_GetFriendFavoriteGame, FrdU_GetFriendComment, FrdU_GetFriendMii,
     FrdU_GetFriendInfo}

\* what a friend data query returns for a friend, and for no friend
StoredValue(command_id, friend) ==
    CASE command_id = FrdU_GetFriendProfile -> friend.friend_profile
      [] command_id = FrdU_GetFriendRelationship -> friend.friend_relationship
      [] command_id = FrdU_GetFriendAttributeFlags -> get_attribute(friend)
      [] command_id = FrdU_GetFriendFavoriteGame -> friend.favorite_game
      [] command_id = FrdU_GetFriendComment -> friend.comment
      [] command_id = FrdU_GetFriendMii -> friend.mii
      [] command_id = FrdU_GetFriendInfo -> FriendInfo_from(friend)

DefaultValue(command_id) ==
    CASE command_id = FrdU_GetFriendProfile -> Default_FriendProfile
      [] command_id = FrdU_GetFriendRelationship -> 0
      [] command_id = FrdU_GetFriendAttributeFlags -> 0
      [] command_id = FrdU_GetFriendFavoriteGame -> Default_GameKey
      [] command_id = FrdU_GetFriendComment -> Default_FriendComment
      [] command_id = FrdU_GetFriendMii -> Default_Mii
      [] command_id = FrdU_GetFriendInfo -> Default_FriendInfo

\* the elements the reply hands back
Output ==
    IF request.command_id \in WriteBufferQueries
    THEN SubSeq(out_buffer, 1, reply.written)
    ELSE reply.static_buffers[1]

\* the friends with the principal id of a key
FriendsOfPrincipalId(friend_key) ==
    {j \in 1..Len(friend_list) :
        friend_list[j].friend_key.principal_id = friend_key.principal_id}

(* C1: for each batch query that replies through the static buffer of the  *)
(* session, the reply holds exactly min(requested_max, 100, keys.len())    *)
(* elements, and none when the key list is empty or requested_max is 0.    *)

C1_StaticBufferReplyLength ==
    (request.command_id \in StaticBufferQueries /\ WellShaped(request)) =>
        /\ reply.result = Success
        /\ Len(reply.static_buffers) = 1
        /\ Len(reply.static_buffers[1]) =
               Min(RequestedMax(request),
                   Min(MAX_FRIEND_COUNT, Len(request.static_buffer)))
        /\ (request.static_buffer = <<>> \/ RequestedMax(request) = 0) =>
               reply.static_buffers[1] = <<>>

\* 101 keys were sent with a requested maximum of 101 and 100 profiles came back
C1_Witness ==
    /\ request.command_id = FrdU_GetFriendProfile
    /\ request.static_buffer = LongKeyList
    /\ RequestedMax(request) = MAX_FRIEND_COUNT + 1
    /\ reply.result = Success
    /\ Len(reply.static_buffers[1]) = MAX_FRIEND_COUNT

(* C2: in every batch query that reads friend data, element i of the       *)
(* output is the stored value of the friend key i looks up, by principal   *)
(* id, when there is such a friend and the default of the query when there *)
(* is none; the reply is never an error because of a key.                  *)

C2_ElementsFollowKeys ==
    /\ (request.command_id \in FriendDataQueries /\ WellShaped(request)) =>
        /\ reply.result = Success
        /\ \A i \in 1..Len(Output) :
               LET found == FriendsOfPrincipalId(request.static_buffer[i])
               IN  Output[i] =
                       IF found = {} THEN DefaultValue(request.command_id)
                       ELSE StoredValue(request.command_id, friend_list[Least(found)])
    /\ (request.command_id = FrdU_GetFriendScreenName /\ WellShaped(request)) =>
        /\ reply.result = Success
        /\ Len(reply.static_buffers) = 2
        /\ Len(reply.static_buffers[1]) = Len(reply.static_buffers[2])
        /\ \A i \in 1..Len(reply.static_buffers[1]) :
               LET found == FriendsOfPrincipalId(request.static_buffer[i])
               IN  IF found = {}
                   THEN /\ reply.static_buffers[1][i] = Default_ScreenName
                        /\ reply.static_buffers[2][i] = Default_TrivialCharacterSet
                   ELSE /\ reply.static_buffers[1][i] =
                               friend_list[Least(found)].screen_name
                        /\ reply.static_buffers[2][i] =
                               friend_list[Least(found)].character_set

(* C3: a batch query that writes into the buffer of the caller writes and  *)
(* reports min(requested_max, 100, keys.len(), capacity of the buffer)     *)
(* elements and leaves every element of the buffer from that index on as   *)
(* it was.                                                                 *)

C3_WriteBufferCount ==
    (request.command_id \in WriteBufferQueries /\ WellShaped(request)) =>
        LET count == Min(RequestedMax(request),
                         Min(MAX_FRIEND_COUNT,
                             Min(Len(request.static_buffer), Len(request.mut_buffer))))
        IN  /\ reply.result = Success
            /\ reply.written = count
            /\ Len(out_buffer) = Len(request.mut_buffer)
            /\ \A i \in 1..Len(out_buffer) :
                   IF i <= count THEN out_buffer[i] # request.mut_buffer[i]
                   ELSE out_buffer[i] = request.mut_buffer[i]

\* 101 keys and a buffer of 101 Miis were sent with the largest maximum: 100
\* Miis were written and the last Mii of the buffer is as it was
C3_Witness ==
    /\ request.command_id = FrdU_GetFriendMii
    /\ request.static_buffer = LongKeyList
    /\ RequestedMax(request) = BigWord
    /\ Len(request.mut_buffer) = MAX_FRIEND_COUNT + 1
    /\ reply.written = MAX_FRIEND_COUNT
    /\ out_buffer[MAX_FRIEND_COUNT] # StaleMii
    /\ out_buffer[MAX_FRIEND_COUNT + 1] = StaleMii

(* C4: every batch query treats a key as found exactly when the friend     *)
(* list holds an entry with the principal id of the key.                   *)

C4_FoundByPrincipalId ==
    /\ (request.command_id \in FriendDataQueries /\ reply.result = Success) =>
        \A i \in 1..Len(Output) :
            (Output[i] # DefaultValue(request.command_id))
                <=> (FriendsOfPrincipalId(request.static_buffer[i]) # {})
    /\ (request.command_id = FrdU_GetFriendScreenName /\ reply.result = Success) =>
        \A i \in 1..Len(reply.static_buffers[1]) :
            (reply.static_buffers[1][i] # Default_ScreenName)
                <=> (FriendsOfPrincipalId(request.static_buffer[i]) # {})

(* C5: GetFriendAttributeFlags gives, for a friend that is found, the      *)
(* attribute 0, 3, 0, 1, 1, 0 for the relationship levels 0 to 5 and 3 for *)
(* every level above 5.                                                    *)

C5_AttributeTable(level) ==
    CASE level = 0 -> 0
      [] level = 1 -> 3
      [] level = 2 -> 0
      [] level = 3 -> 1
      [] level = 4 -> 1
      [] level = 5 -> 0
      [] OTHER -> 3

C5_AttributeFlagsFollowTheTable ==
    (request.command_id = FrdU_GetFriendAttributeFlags /\ WellShaped(request)) =>
        /\ reply.result = Success
        /\ \A i \in 1..Len(reply.static_buffers[1]) :
               \A j \in 1..Len(friend_list) :
                   friend_list[j].friend_key = request.static_buffer[i] =>
                       reply.static_buffers[1][i] =
                           C5_AttributeTable(friend_list[j].friend_relationship)

\* the attribute of a friend of relationship level 255 was asked for and is 3
C5_Witness ==
    /\ request.command_id = FrdU_GetFriendAttributeFlags
    /\ Len(friend_list) = 1
    /\ friend_list[1].friend_relationship = 255
    /\ request.static_buffer = <<friend_list[1].friend_key>>
    /\ reply.result = Success
    /\ reply.static_buffers = <<(<<3>>)>>

----------------------------------------------------------------------------
(* Claims about the WiFi event and the WiFi requests *)

\* C11 (as claimed): a ConnectToWiFi or DisconnectFromWiFi request that
\* leaves the composite WiFi status as it found it makes no call of
\* signal_event, and no such request calls signal_event more than once.
C11_NoSpuriousOrRepeatedSignal ==
    (IsFrdN(FrdN_ConnectToWiFi) \/ IsFrdN(FrdN_DisconnectFromWiFi)) =>
        /\ WifiState = get_wifi_state(request.pre.ndm, request.pre.status)
             => CallsOf(svc_calls, "signal_event") = 0
        /\ CallsOf(svc_calls, "signal_event") <= 1

----------------------------------------------------------------------------
(* frd:u, the session commands (frd/frdu.rs): the event notifications, the  *)
(* notification mask and the client sdk version of a session               *)

FrdU_AttachToEventNotification == 32
FrdU_SetNotificationMask == 33
FrdU_GetEventNotification == 34
FrdU_SetClientSdkVersion == 50

\* the error of pop_handle and of pop_and_validate_process_id when the
\* translate word is not the descriptor they expect
GenericInvalidValue == "GenericResultCode::InvalidValue"

\* ServiceContext::accept_session
accept_session(contexts) == Append(contexts, SessionContext_new)

\* NotificationEvent::new(notification_type, friend_key)
NotificationEvent(notification_type, friend_key) ==
    [notification_type |-> notification_type, friend_key |-> friend_key]

Default_NotificationEvent == NotificationEvent(0, Default_FriendKey)

\* the events queued over all sessions
RECURSIVE QueuedEvents(_)
QueuedEvents(contexts) ==
    IF contexts = <<>> THEN 0
    ELSE Len(Head(contexts).client_event_queue) + QueuedEvents(Tail(contexts))

\* client_event_queue.push(notification) on the queue of session s, while the
\* service waits for a request
client_event_queue_push(s, notification, limit) ==
    /\ Waiting
    /\ QueuedEvents(session_contexts) < limit
    /\ session_contexts' =
           [session_contexts EXCEPT ![s + 1].client_event_queue =
                Append(@, notification)]
    /\ UNCHANGED <<ndm_wifi_state, wifi_connection_status, friend_list, my_online_activity, save_archive, startup, registry, request,
                   reply, svc_calls, out_buffer>>

\* svc::signal_event(&event_handle) on the event the client sent
SignalClientEvent(ok) == [fn |-> "signal_event(event_handle)", ok |-> ok]

\* an error path that signals the client's event before it returns
PopErrorAfterSignal(req, error) ==
    /\ request' = req
    /\ reply' = ErrReply(req.command_id, error)
    /\ svc_calls' = <<SignalClientEvent(TRUE)>>
    /\ out_buffer' = req.mut_buffer

\* a handler returned the error of a failed pop after the handler's steps so
\* far
PopError(req, error) ==
    /\ request' = req
    /\ reply' = ErrReply(req.command_id, error)
    /\ svc_calls' = <<>>
    /\ out_buffer' = req.mut_buffer

\* a success reply that carries the words after the result code
ReplyWords(req, words) ==
    /\ request' = req
    /\ reply' = Reply(req.command_id, Success, words, <<>>, 0)
    /\ svc_calls' = <<>>
    /\ out_buffer' = req.mut_buffer

\* client_event is the result of pop_handle: Ok(handle) or Err(error)
AttachToEventNotification(s, header, client_event) ==
    /\ Waiting
    /\ LET req == IpcRequest("frd:u", FrdU_AttachToEventNotification, s, header, <<client_event>>, 0, <<>>, <<>>)
       IN  IF ~validate_header(header, 0, 2)
           THEN ShapeError(req)
           ELSE IF ~client_event.ok
           THEN PopError(req, client_event.error) /\ UNCHANGED ctx_vars
           ELSE /\ session_contexts' =
                       [session_contexts EXCEPT ![s + 1].client_event =
                            OptionSome(client_event.value)]
                /\ ReplyWords(req, <<>>)
                /\ UNCHANGED <<ndm_wifi_state, wifi_connection_status, friend_list, my_online_activity, save_archive, startup, registry>>

\* a mutant of set_notification_mask: the mask of every session is set
set_notification_mask_every_session(contexts, session_index, word) ==
    [i \in 1..Len(contexts) |-> [contexts[i] EXCEPT !.notification_mask = word]]

\* context.session_contexts[session_index].notification_mask = word
set_notification_mask(contexts, session_index, word) ==
    [contexts EXCEPT ![session_index + 1].notification_mask = word]

\* the header is not validated: the first parameter word is popped whatever
\* the header declares
SetNotificationMask(s, header, word) ==
    /\ Waiting
    /\ LET req == IpcRequest("frd:u", FrdU_SetNotificationMask, s, header, <<word>>, 0, <<>>, <<>>)
       IN  /\ session_contexts' = set_notification_mask(session_contexts, s, word)
           /\ ReplyWords(req, <<>>)
           /\ UNCHANGED <<ndm_wifi_state, wifi_connection_status, friend_list, my_online_activity, save_archive, startup, registry>>

\* a mutant of the drain: the events that were not returned stay queued
drain_keep_rest(queue, out_count) == SubSeq(queue, out_count + 1, Len(queue))

\* client_event_queue.clear()
drain_clear(queue, out_count) == <<>>

GetEventNotification(s, header, max, notification_out) ==
    /\ Waiting
    /\ LET req == IpcRequest("frd:u", FrdU_GetEventNotification, s, header, <<max>>, 0, <<>>, notification_out)
       IN  IF ~validate_header(header, 1, 2)
           THEN ShapeError(req)
           ELSE LET max_notification_count == max
                    client_event_queue == session_contexts[s + 1].client_event_queue
                    out_count == zip_take_count(notification_out, client_event_queue, max_notification_count)
                    written ==
                        [i \in 1..Len(notification_out) |->
                            IF i > out_count THEN notification_out[i]
                            ELSE client_event_queue[i]]
                IN  /\ request' = req
                    /\ session_contexts' =
                           [session_contexts EXCEPT ![s + 1].client_event_queue =
                                drain_clear(@, out_count)]
                    /\ reply' = Reply(req.command_id, Success, <<0, out_count>>, <<>>, out_count)
                    /\ out_buffer' = written
                    /\ svc_calls' = <<>>
                    /\ UNCHANGED <<ndm_wifi_state, wifi_connection_status, friend_list, my_online_activity, save_archive, startup, registry>>

\* process_id is the result of pop_and_validate_process_id: Ok(id) or
\* Err(error); the sdk version is stored before the process id is popped
SetClientSdkVersion(s, header, version, process_id) ==
    /\ Waiting
    /\ LET req == IpcRequest("frd:u", FrdU_SetClientSdkVersion, s, header, <<version, process_id>>, 0, <<>>, <<>>)
       IN  IF ~validate_header(header, 1, 2)
           THEN ShapeError(req)
           ELSE IF ~process_id.ok
           THEN /\ session_contexts' =
                       [session_contexts EXCEPT ![s + 1].client_sdk_version = version]
                /\ PopError(req, process_id.error)
                /\ UNCHANGED <<ndm_wifi_state, wifi_connection_status, friend_list, my_online_activity, save_archive, startup, registry>>
           ELSE /\ session_contexts' =
                       [session_contexts EXCEPT ![s + 1].client_sdk_version = version,
                                                ![s + 1].process_id = process_id.value]
                /\ ReplyWords(req, <<>>)
                /\ UNCHANGED <<ndm_wifi_state, wifi_connection_status, friend_list, my_online_activity, save_archive, startup, registry>>

----------------------------------------------------------------------------
(* Two sessions of frd:u and their session commands *)

\* the most events queued over all sessions at a time
MaxQueued == 2

NotificationEvents ==
    {NotificationEvent(1, FriendKey(1, 0, 11)), NotificationEvent(2, FriendKey(1, 0, 11))}

StaleNotificationEvent == NotificationEvent(255, FriendKey(255, 255, 255))

Handles == {43981}
NotificationMasks == {0, BigWord}
SdkVersions == {43707}
ProcessIds == {7}

\* the results of a pop that validates a translate word
Popped(values) == {Ok(v) : v \in values} \cup {[ok |-> FALSE, value |-> 0, error |-> GenericInvalidValue]}

\* the header a command expects and two wrong ones
Headers(normal, translate) ==
    {Header(normal, translate), Header(normal + 1, translate), Header(normal, translate + 2)}

\* FriendServiceContext::new() followed by the accept of two sessions
InitSessions ==
    /\ ndm_wifi_state = 0
    /\ wifi_connection_status = Idle
    /\ friend_list = <<>>
    /\ my_online_activity = Default_OnlineActivity
    /\ save_archive = ValidSaveArchive(friend_list)
    /\ startup = Success
    /\ session_contexts = accept_session(accept_session(<<>>))
    /\ registry = NoRegistryCalls(Len(session_contexts))
    /\ request = NoRequest
    /\ reply = NoReply
    /\ svc_calls = <<>>
    /\ out_buffer = <<>>

NextSessions ==
    \/ Waiting /\ \E s \in Sessions, n \in NotificationEvents :
          client_event_queue_push(s, n, MaxQueued)
    \/ Waiting /\ \E s \in Sessions, h \in Headers(0, 2), e \in Popped(Handles) :
          AttachToEventNotification(s, h, e)
    \/ Waiting /\ \E s \in Sessions, h \in Headers(1, 0), w \in NotificationMasks :
          SetNotificationMask(s, h, w)
    \/ Waiting /\ \E s \in Sessions, h \in Headers(1, 2), max \in 0..(MaxQueued + 1) \cup {BigWord},
          capacity \in 0..(MaxQueued + 1) :
          GetEventNotification(s, h, max, OutBuffer(StaleNotificationEvent, capacity))
    \/ Waiting /\ \E s \in Sessions, h \in Headers(1, 2), v \in SdkVersions, p \in Popped(ProcessIds) :
          SetClientSdkVersion(s, h, v, p)
    \/ SendReply

SpecSessions == InitSessions /\ [][NextSessions]_vars

----------------------------------------------------------------------------
(* Claims about the sessions *)

IsFrdU(command_id) == request.service = "frd:u" /\ request.command_id = command_id

\* the session context the request found in its session
FoundSession == request.pre_sessions[request.session_index + 1]

\* the session context of the session of the request, as it is now
OwnSession == session_contexts[request.session_index + 1]

\* C12: a GetEventNotification request of the right shape writes the oldest
\* queued events of its session to the output buffer in the order they were
\* queued, min(max requested, queue length, capacity of the buffer) of them,
\* leaves the rest of the buffer as it was, reports that number in the reply
\* and leaves the queue of the session empty.
C12_DrainOldestAndClear ==
    (IsFrdU(FrdU_GetEventNotification) /\ reply.result = Success) =>
        LET queue == FoundSession.client_event_queue
            capacity == Len(request.mut_buffer)
            n == Min(request.words[1], Min(Len(queue), capacity))
        IN  /\ reply.words = <<0, n>>
            /\ reply.written = n
            /\ Len(out_buffer) = capacity
            /\ \A i \in 1..capacity :
                 out_buffer[i] = (IF i <= n THEN queue[i] ELSE request.mut_buffer[i])
            /\ OwnSession.client_event_queue = <<>>

\* C12 witness: two events were queued and one was asked for: the older one
\* came back and the queue is empty
C12_Witness ==
    /\ IsFrdU(FrdU_GetEventNotification)
    /\ reply.result = Success
    /\ request.words = <<1>>
    /\ Len(FoundSession.client_event_queue) = 2
    /\ FoundSession.client_event_queue[1] # FoundSession.client_event_queue[2]
    /\ Len(request.mut_buffer) = 2
    /\ out_buffer = <<FoundSession.client_event_queue[1], StaleNotificationEvent>>
    /\ reply.words = <<0, 1>>
    /\ OwnSession.client_event_queue = <<>>

\* the fields of a session context a session command may write
WrittenFields(command_id) ==
    IF command_id = FrdU_SetNotificationMask THEN {"notification_mask"}
    ELSE IF command_id = FrdU_AttachToEventNotification THEN {"client_event"}
    ELSE IF command_id = FrdU_SetClientSdkVersion THEN {"client_sdk_version", "process_id"}
    ELSE {"client_event_queue"}

SessionCommands ==
    {FrdU_SetNotificationMask, FrdU_AttachToEventNotification, FrdU_SetClientSdkVersion,
     FrdU_GetEventNotification}

\* C13: a SetNotificationMask, AttachToEventNotification, SetClientSdkVersion
\* or GetEventNotification request addressed to a session leaves the context
\* of every other session as it was, whatever requests came before from
\* either session, and changes in its own session nothing but the
\* notification mask, the client event, the sdk version and process id, or
\* the event queue respectively.
C13_SessionIsolation ==
    (request.service = "frd:u" /\ request.command_id \in SessionCommands) =>
        /\ Len(session_contexts) = Len(request.pre_sessions)
        /\ \A other \in Sessions :
             other # request.session_index
                 => session_contexts[other + 1] = request.pre_sessions[other + 1]
        /\ \A field \in DOMAIN OwnSession :
             field \notin WrittenFields(request.command_id)
                 => OwnSession[field] = FoundSession[field]

\* C13 witness: session 0 set its mask while session 1 had a mask, a client
\* event, an sdk version and a queued event of its own, which it kept
C13_Witness ==
    /\ IsFrdU(FrdU_SetNotificationMask)
    /\ request.session_index = 0
    /\ reply.result = Success
    /\ FoundSession.notification_mask = 0
    /\ OwnSession.notification_mask = BigWord
    /\ session_contexts[2].notification_mask = 0
    /\ session_contexts[2].client_event = OptionSome(43981)
    /\ session_contexts[2].client_sdk_version = 43707
    /\ Len(session_contexts[2].client_event_queue) = 1
    /\ session_contexts[2] = request.pre_sessions[2]

----------------------------------------------------------------------------
(* frd:u, game authentication and service locator (frd/frdu.rs,             *)
(* frd/online_play)                                                        *)

FrdU_RequestGameAuthentication == 40
FrdU_GetGameAuthenticationData == 41
FrdU_RequestServiceLocator == 42
FrdU_GetServiceLocatorData == 43
FrdU_GetServerTimeInterval == 46

\* FrdErrorCode::MissingData
MissingData == "MissingData"

\* the error of a request to the game server that failed: the request could
\* not be made or sent, or its response could not be read or parsed
FetchError == "fetch error"

\* params is the result of the pops of the parameters (pop_struct,
\* pop_and_validate_process_id, pop_handle), fetched the result of the request
\* to the game server (create_game_login_request, download_data_into_buffer,
\* get_response_status_code, from_fetched_response), sig_ok the outcome of
\* signal_event
RequestGameAuthentication(s, header, params, fetched, sig_ok) ==
    /\ Waiting
    /\ LET req == IpcRequest("frd:u", FrdU_RequestGameAuthentication, s, header, <<params, fetched>>, 0, <<>>, <<>>)
       IN  IF ~validate_header(header, 9, 4)
           THEN ShapeError(req)
           ELSE IF ~params.ok
           THEN PopError(req, params.error) /\ UNCHANGED ctx_vars
           ELSE IF ~fetched.ok
           THEN PopError(req, fetched.error) /\ UNCHANGED ctx_vars
           ELSE /\ session_contexts' =
                       [session_contexts EXCEPT ![s + 1].last_game_authentication_response =
                            OptionSome(fetched.value)]
                /\ request' = req
                /\ svc_calls' = <<SignalClientEvent(sig_ok)>>
                /\ reply' = IF sig_ok THEN Reply(req.command_id, Success, <<>>, <<>>, 0)
                            ELSE ErrReply(req.command_id, SignalEventError)
                /\ out_buffer' = req.mut_buffer
                /\ UNCHANGED <<ndm_wifi_state, wifi_connection_status, friend_list, my_online_activity, save_archive, startup, registry>>

\* the reply that pushes the result code and the record copied into the
\* static buffer of the session
ReplyRecord(req, result, record) ==
    /\ request' = req
    /\ session_contexts' =
           copy_into_session_static_buffer(session_contexts, req.session_index, <<record>>)
    /\ reply' = Reply(req.command_id, result, <<>>,
                      <<session_contexts'[req.session_index + 1].static_buffer>>, 0)
    /\ svc_calls' = <<>>
    /\ out_buffer' = req.mut_buffer
    /\ UNCHANGED <<ndm_wifi_state, wifi_connection_status, friend_list, my_online_activity, save_archive, startup, registry>>

\* the result code pushed for Some(response) and for None
result_of_last_response(last_response) ==
    IF last_response.some THEN Success ELSE MissingData

GetGameAuthenticationData(s, header) ==
    /\ Waiting
    /\ LET req == IpcRequest("frd:u", FrdU_GetGameAuthenticationData, s, header, <<>>, 0, <<>>, <<>>)
           last_game_authentication_response ==
               session_contexts[s + 1].last_game_authentication_response
           game_auth_data ==
               IF last_game_authentication_response.some
               THEN last_game_authentication_response.value
               ELSE Default_GameAuthenticationData
       IN  ReplyRecord(req, result_of_last_response(last_game_authentication_response),
                       game_auth_data)

\* interval is calculate_time_difference_from_now(timestamp of the response)
RequestServiceLocator(s, header, params, fetched, interval, sig_ok) ==
    /\ Waiting
    /\ LET req == IpcRequest("frd:u", FrdU_RequestServiceLocator, s, header, <<params, fetched>>, 0, <<>>, <<>>)
       IN  IF ~validate_header(header, 8, 4)
           THEN ShapeError(req)
           ELSE IF ~params.ok
           THEN PopError(req, params.error) /\ UNCHANGED ctx_vars
           ELSE IF ~fetched.ok
           THEN PopError(req, fetched.error) /\ UNCHANGED ctx_vars
           ELSE /\ session_contexts' =
                       [session_contexts EXCEPT ![s + 1].last_service_locator_response =
                            OptionSome(fetched.value),
                                                ![s + 1].server_time_interval = interval]
                /\ request' = req
                /\ svc_calls' = <<SignalClientEvent(sig_ok)>>
                /\ reply' = IF sig_ok THEN Reply(req.command_id, Success, <<>>, <<>>, 0)
                            ELSE ErrReply(req.command_id, SignalEventError)
                /\ out_buffer' = req.mut_buffer
                /\ UNCHANGED <<ndm_wifi_state, wifi_connection_status, friend_list, my_online_activity, save_archive, startup, registry>>

GetServiceLocatorData(s, header) ==
    /\ Waiting
    /\ LET req == IpcRequest("frd:u", FrdU_GetServiceLocatorData, s, header, <<>>, 0, <<>>, <<>>)
           service_locator_response ==
               session_contexts[s + 1].last_service_locator_response
           service_locate_data ==
               IF service_locator_response.some
               THEN service_locator_response.value
               ELSE Default_ServiceLocateData
       IN  ReplyRecord(req, result_of_last_response(service_locator_response),
                       service_locate_data)

GetServerTimeInterval(s, header) ==
    /\ Waiting
    /\ LET req == IpcRequest("frd:u", FrdU_GetServerTimeInterval, s, header, <<>>, 0, <<>>, <<>>)
           server_time_interval == session_contexts[s + 1].server_time_interval
       IN  ReplyWords(req, <<server_time_interval>>) /\ UNCHANGED ctx_vars

----------------------------------------------------------------------------
(* Two sessions of frd:u that authenticate and locate services *)

\* the responses of the game server, as from_fetched_response parses them
AuthenticationResponses ==
    {GameAuthenticationData(1, 200, <<127, 0, 0, 1>>, 7000, 0, <<1>>, 20210102),
     GameAuthenticationData(2, 200, <<>>, 0, 1, <<>>, 20210103)}

LocateResponses ==
    {ServiceLocateData(7, 200, <<110>>, <<1>>, <<89>>, 20210102),
     ServiceLocateData(1, 200, <<>>, <<>>, <<>>, 20210103)}

TimeIntervals == {5}

\* the results of a step that gives a record or fails
Fetched(records, unread) ==
    {Ok(r) : r \in records} \cup {[ok |-> FALSE, value |-> unread, error |-> FetchError]}

\* the result of the parameter pops of a request to the game server
PoppedParams == Popped({0})

NextOnline ==
    \/ Waiting /\ \E s \in Sessions, h \in Headers(9, 4), p \in PoppedParams,
          f \in Fetched(AuthenticationResponses, Default_GameAuthenticationData),
          sig_ok \in BOOLEAN :
          /\ h = Header(9, 4) \/ (p.ok /\ ~f.ok /\ sig_ok)
          /\ p.ok \/ (~f.ok /\ sig_ok)
          /\ RequestGameAuthentication(s, h, p, f, sig_ok)
    \/ Waiting /\ \E s \in Sessions, h \in Headers(0, 0) : GetGameAuthenticationData(s, h)
    \/ Waiting /\ \E s \in Sessions, h \in Headers(8, 4), p \in PoppedParams,
          f \in Fetched(LocateResponses, Default_ServiceLocateData),
          i \in TimeIntervals, sig_ok \in BOOLEAN :
          /\ h = Header(8, 4) \/ (p.ok /\ ~f.ok /\ sig_ok)
          /\ p.ok \/ (~f.ok /\ sig_ok)
          /\ RequestServiceLocator(s, h, p, f, i, sig_ok)
    \/ Waiting /\ \E s \in Sessions, h \in Headers(0, 0) : GetServiceLocatorData(s, h)
    \/ Waiting /\ \E s \in Sessions, h \in Headers(0, 0) : GetServerTimeInterval(s, h)
    \/ SendReply

SpecOnline == InitSessions /\ [][NextOnline]_vars

----------------------------------------------------------------------------
(* Claims about the authentication and locator data *)

\* C14 (as claimed): GetGameAuthenticationData and GetServiceLocatorData
\* reply MissingData with the default record when the session stores no
\* response, and success with the stored record when it stores one; the
\* stored response of a session changes only when a RequestGameAuthentication
\* or RequestServiceLocator request of that same session has completed, that
\* is replied success, and is then the response that request fetched.
C14_DataOnlyAfterCompletedRequest ==
    /\ IsFrdU(FrdU_GetGameAuthenticationData) =>
         LET last == FoundSession.last_game_authentication_response
         IN  /\ reply.result = (IF last.some THEN Success ELSE MissingData)
             /\ reply.static_buffers =
                    <<<<IF last.some THEN last.value ELSE Default_GameAuthenticationData>>>>
             /\ OwnSession.last_game_authentication_response = last
    /\ IsFrdU(FrdU_GetServiceLocatorData) =>
         LET last == FoundSession.last_service_locator_response
         IN  /\ reply.result = (IF last.some THEN Success ELSE MissingData)
             /\ reply.static_buffers =
                    <<<<IF last.some THEN last.value ELSE Default_ServiceLocateData>>>>
             /\ OwnSession.last_service_locator_response = last
    /\ \A i \in 1..Len(request.pre_sessions) :
         /\ session_contexts[i].last_game_authentication_response
                # request.pre_sessions[i].last_game_authentication_response
              => /\ IsFrdU(FrdU_RequestGameAuthentication)
                 /\ i = request.session_index + 1
                 /\ reply.result = Success
                 /\ session_contexts[i].last_game_authentication_response
                        = OptionSome(request.words[2].value)
         /\ session_contexts[i].last_service_locator_response
                # request.pre_sessions[i].last_service_locator_response
              => /\ IsFrdU(FrdU_RequestServiceLocator)
                 /\ i = request.session_index + 1
                 /\ reply.result = Success
                 /\ session_contexts[i].last_service_locator_response
                        = OptionSome(request.words[2].value)
    /\ (IsFrdU(FrdU_RequestGameAuthentication) /\ reply.result = Success)
         => OwnSession.last_game_authentication_response = OptionSome(request.words[2].value)
    /\ (IsFrdU(FrdU_RequestServiceLocator) /\ reply.result = Success)
         => OwnSession.last_service_locator_response = OptionSome(request.words[2].value)

----------------------------------------------------------------------------
(* frd:u, the other commands (frd/frdu.rs) *)

FrdU_InvalidCommand == 0
FrdU_Login == 3
FrdU_GetMyPresence == 8
FrdU_GetMyPlayingGame == 12
FrdU_GetMyPassword == 16
FrdU_GetFriendKeyList == 17
FrdU_IsIncludedInFriendList == 27
FrdU_UpdateGameMode == 30
FrdU_ResultToErrorCode == 39
FrdU_DetectNatProperties == 44
FrdU_GetExtendedNatProperties == 54

\* the handler panicked: the panic handler breaks the execution of the process
Panicked == "panic"

\* FrdErrorCode::InvalidErrorCode and GenericResultCode::InvalidString
InvalidErrorCode == "InvalidErrorCode"
GenericInvalidString == "GenericResultCode::InvalidString"

\* the words UpdateGameMode pushes in place of a result code (0xc4e1)
UpdateGameModeResult == "0xc4e1"

PanicReply(req) ==
    /\ request' = req
    /\ reply' = ErrReply(req.command_id, Panicked)
    /\ svc_calls' = <<>>
    /\ out_buffer' = req.mut_buffer

\* commands whose arm pushes a result code and words read from my_data,
\* account_config or nat_properties, pops nothing it validates and writes
\* nothing: HasLoggedIn, IsOnline, Logout, GetMyFriendKey, GetMyPreference,
\* GetMyProfile, GetMyScreenName, GetMyMii, GetMyLocalAccountId,
\* GetMyFavoriteGame, GetMyNcPrincipalId, GetMyComment,
\* UpdateGameModeDescription, UpdateGameMode, SendInvitation,
\* GetLastResponseResult, GetNatProperties, AllowHalfAwake, GetServerTypes,
\* GetMyApproachContext, AddFriendWithApproach, DecryptApproachContext,
\* GetExtendedNatProperties
ReplyOnlyCommands ==
    {1, 2, 4, 5, 6, 7, 9, 10, 11, 13, 14, 15, 29, 30, 31, 35, 45, 47, 48, 51, 52, 53, 54}

\* the reply of such a command; the words after the result code are not
\* modelled
ReplyOnly(service, s, command_id, header) ==
    /\ Waiting
    /\ command_id \in ReplyOnlyCommands
    /\ LET req == IpcRequest(service, command_id, s, header, <<>>, 0, <<>>, <<>>)
       IN  /\ request' = req
           /\ reply' = Reply(command_id,
                             IF command_id = FrdU_UpdateGameMode
                             THEN UpdateGameModeResult ELSE Success,
                             <<>>, <<>>, 0)
           /\ svc_calls' = <<>>
           /\ out_buffer' = <<>>
    /\ UNCHANGED ctx_vars

\* event is the result of pop_handle
Login(s, header, event, sig_ok) ==
    /\ Waiting
    /\ LET req == IpcRequest("frd:u", FrdU_Login, s, header, <<event>>, 0, <<>>, <<>>)
       IN  /\ request' = req
           /\ svc_calls' = IF event.ok THEN <<SignalClientEvent(sig_ok)>> ELSE <<>>
           /\ reply' = IF event.ok /\ ~sig_ok
                       THEN ErrReply(FrdU_Login, SignalEventError)
                       ELSE Reply(FrdU_Login, Success, <<>>, <<>>, 0)
           /\ out_buffer' = <<>>
    /\ UNCHANGED ctx_vars

\* ExpandedFriendPresence::default()
Default_ExpandedFriendPresence == [expanded |-> Default_FriendPresence]

GetMyPresence(s, header) ==
    /\ Waiting
    /\ LET req == IpcRequest("frd:u", FrdU_GetMyPresence, s, header, <<>>, 0, <<>>, <<>>)
       IN  ReplyRecord(req, Success, Default_ExpandedFriendPresence)

GetMyPlayingGame(s, header) ==
    /\ Waiting
    /\ LET req == IpcRequest("frd:u", FrdU_GetMyPlayingGame, s, header, <<>>, 0, <<>>, <<>>)
           playing_game == my_online_activity.playing_game
       IN  ReplyWords(req, <<playing_game.title_id, playing_game.version, playing_game.unk>>)
    /\ UNCHANGED ctx_vars

\* nex_password is context.account_config.nex_password as bytes;
\* CString::new refuses a string with a zero byte in it
GetMyPassword(s, header, nex_password) ==
    /\ Waiting
    /\ LET req == IpcRequest("frd:u", FrdU_GetMyPassword, s, header, <<nex_password>>, 0, <<>>, <<>>)
       IN  IF \E i \in 1..Len(nex_password) : nex_password[i] = 0
           THEN PopError(req, GenericInvalidString) /\ UNCHANGED ctx_vars
           ELSE ReplyStaticBuffer(req, nex_password \o <<0>>)

\* FriendServiceContext::get_friend_keys
get_friend_keys(friends) == [i \in 1..Len(friends) |-> friends[i].friend_key]

\* min(word as usize, cap) for a parameter word
MinWithWord(w, cap) == IF w[1] > 0 THEN cap ELSE Min(w[2], cap)

\* start + requested overflows a 32 bit usize
UsizeAddOverflows(start, requested) ==
    requested[1] = 65535 /\ requested[2] + start >= 65536

\* min(start + requested, cap), the sum wrapping at 32 bits
MinWithWrappedSum(start, requested, cap) ==
    IF UsizeAddOverflows(start, requested) THEN Min(requested[2] + start - 65536, cap)
    ELSE IF requested[1] > 0 THEN cap
    ELSE Min(start + requested[2], cap)

\* overflow_checks tells whether the build panics on an arithmetic overflow
\* (a debug build) or wraps (a release build)
GetFriendKeyList(s, header, friend_list_offset, requested_number_of_friends, overflow_checks) ==
    /\ Waiting
    /\ LET req == IpcRequest("frd:u", FrdU_GetFriendKeyList, s, header, <<friend_list_offset, requested_number_of_friends>>, 0, <<>>, <<>>)
           friend_keys == get_friend_keys(friend_list)
           start == MinWithWord(friend_list_offset, Len(friend_keys))
           end == MinWithWrappedSum(start, requested_number_of_friends, Len(friend_keys))
       IN  IF overflow_checks /\ UsizeAddOverflows(start, requested_number_of_friends)
           THEN PanicReply(req)
           ELSE IF start > end
           THEN PanicReply(req)
           ELSE LET sliced_friend_keys == SubSeq(friend_keys, start + 1, end)
                IN  /\ request' = req
                    /\ reply' = Reply(req.command_id, Success, <<Len(sliced_friend_keys)>>,
                                      <<sliced_friend_keys>>, 0)
                    /\ svc_calls' = <<>>
                    /\ out_buffer' = <<>>
    /\ UNCHANGED ctx_vars

\* friend_code is the local friend code popped by pop_u64
IsIncludedInFriendList(s, header, friend_code) ==
    /\ Waiting
    /\ LET req == IpcRequest("frd:u", FrdU_IsIncludedInFriendList, s, header, <<friend_code>>, 0, <<>>, <<>>)
           has_friend ==
               \E i \in 1..Len(friend_list) :
                   friend_list[i].friend_key.local_friend_code = friend_code
       IN  ReplyWords(req, <<has_friend>>)
    /\ UNCHANGED ctx_vars

\* a ResultToErrorCode that reads the result code as an unsigned word, so that
\* no code is below zero
ResultToErrorCodeUnsigned(s, header, result_code) ==
    /\ Waiting
    /\ LET req == IpcRequest("frd:u", FrdU_ResultToErrorCode, s, header, <<result_code>>, 0, <<>>, <<>>)
       IN  /\ request' = req
           /\ reply' =
                  IF (result_code \div 1024) % 256 # 49
                  THEN Reply(req.command_id, InvalidErrorCode, <<0>>, <<>>, 0)
                  ELSE Reply(req.command_id, Success, <<0>>, <<>>, 0)
           /\ svc_calls' = <<>>
           /\ out_buffer' = <<>>
    /\ UNCHANGED ctx_vars

\* result_code is an i32; >> is the arithmetic shift
ResultToErrorCode(s, header, result_code) ==
    /\ Waiting
    /\ LET req == IpcRequest("frd:u", FrdU_ResultToErrorCode, s, header, <<result_code>>, 0, <<>>, <<>>)
       IN  /\ request' = req
           /\ reply' =
                  IF (result_code \div 1024) % 256 # 49
                  THEN Reply(req.command_id, InvalidErrorCode, <<0>>, <<>>, 0)
                  ELSE IF result_code > -1
                  THEN Reply(req.command_id, Success, <<0>>, <<>>, 0)
                  ELSE IF result_code % 1024 = 257
                  THEN Reply(req.command_id, Success, <<23000>>, <<>>, 0)
                  ELSE Reply(req.command_id, Success, <<10000>>, <<>>, 0)
           /\ svc_calls' = <<>>
           /\ out_buffer' = <<>>
    /\ UNCHANGED ctx_vars

\* event is the result of pop_handle; both results are unwrapped
DetectNatProperties(s, header, event, sig_ok) ==
    /\ Waiting
    /\ LET req == IpcRequest("frd:u", FrdU_DetectNatProperties, s, header, <<event>>, 0, <<>>, <<>>)
       IN  IF ~event.ok
           THEN PanicReply(req)
           ELSE /\ request' = req
                /\ svc_calls' = <<SignalClientEvent(sig_ok)>>
                /\ reply' = IF sig_ok THEN Reply(req.command_id, Success, <<>>, <<>>, 0)
                            ELSE ErrReply(req.command_id, Panicked)
                /\ out_buffer' = <<>>
    /\ UNCHANGED ctx_vars

\* an arm that answers as if the command had been served
InvalidCommandArmSucceeds(req, invalid_id) ==
    /\ request' = req
    /\ reply' = Reply(req.command_id, Success, <<>>, <<>>, 0)
    /\ svc_calls' = <<>>
    /\ out_buffer' = <<>>

\* the arm of a command without a variant: Err(FrdErrorCode::InvalidCommand)
InvalidCommandArm(req, invalid_id) ==
    /\ request' = req
    /\ reply' = Reply(invalid_id, InvalidCommand, <<>>, <<>>, 0)
    /\ svc_calls' = <<>>
    /\ out_buffer' = <<>>

\* FrdUCommand::from maps every id without a variant to InvalidCommand
FrdUInvalidCommand(service, s, command_id, header) ==
    /\ Waiting
    /\ command_id \notin 1..FrdU_GetExtendedNatProperties
    /\ InvalidCommandArm(IpcRequest(service, command_id, s, header, <<>>, 0, <<>>, <<>>),
                         FrdU_InvalidCommand)
    /\ UNCHANGED ctx_vars

----------------------------------------------------------------------------
(* frd:a (frd/frda.rs): ids below 0x400 are handed to handle_frdu_request *)

FrdA_InvalidCommand == 0
FrdA_FirstCommand == 1024
FrdA_CreateLocalAccount == 1025
FrdA_HasUserData == 1029
FrdA_SetPresenseGameKey == 1034
FrdA_SetMyData == 1036

\* CreateLocalAccount, HasUserData and SetMyData push success and write
\* nothing
FrdAReplyOnly(s, command_id, header) ==
    /\ Waiting
    /\ command_id \in {FrdA_CreateLocalAccount, FrdA_HasUserData, FrdA_SetMyData}
    /\ LET req == IpcRequest("frd:a", command_id, s, header, <<>>, 0, <<>>, <<>>)
       IN  /\ request' = req
           /\ reply' = Reply(command_id, Success, <<>>, <<>>, 0)
           /\ svc_calls' = <<>>
           /\ out_buffer' = <<>>
    /\ UNCHANGED ctx_vars

\* a SetPresenseGameKey that stores the title id and the version only
SetPresenseGameKeyWithoutExtraWord(s, header, title_id, version, unk) ==
    /\ Waiting
    /\ LET req == IpcRequest("frd:a", FrdA_SetPresenseGameKey, s, header, <<title_id, version, unk>>, 0, <<>>, <<>>)
       IN  /\ my_online_activity' =
                  [my_online_activity EXCEPT !.playing_game =
                       [title_id |-> title_id, version |-> version, unk |-> 0]]
           /\ ReplyWords(req, <<>>)
    /\ UNCHANGED <<ndm_wifi_state, wifi_connection_status, friend_list, save_archive, startup, registry, session_contexts>>

SetPresenseGameKey(s, header, title_id, version, unk) ==
    /\ Waiting
    /\ LET req == IpcRequest("frd:a", FrdA_SetPresenseGameKey, s, header, <<title_id, version, unk>>, 0, <<>>, <<>>)
       IN  /\ my_online_activity' =
                  [my_online_activity EXCEPT !.playing_game =
                       [title_id |-> title_id, version |-> version, unk |-> unk]]
           /\ ReplyWords(req, <<>>)
    /\ UNCHANGED <<ndm_wifi_state, wifi_connection_status, friend_list, save_archive, startup, registry, session_contexts>>

\* the fallthrough arm: every id from 0x400 on without an arm of its own
FrdAInvalidCommand(s, command_id, header) ==
    /\ Waiting
    /\ command_id >= FrdA_FirstCommand
    /\ command_id \notin {FrdA_CreateLocalAccount, FrdA_HasUserData,
                          FrdA_SetPresenseGameKey, FrdA_SetMyData}
    /\ InvalidCommandArm(IpcRequest("frd:a", command_id, s, header, <<>>, 0, <<>>, <<>>),
                         FrdA_InvalidCommand)
    /\ UNCHANGED ctx_vars

----------------------------------------------------------------------------
(* The whole service: one session that sends every command of frd:u, frd:a  *)
(* and frd:n, each with the header it declares and with wrong ones          *)

\* one key list and one requested maximum for the batch queries
ServiceBatchInput == BatchInput(1, <<FriendOf(1).friend_key>>)

\* the header a command is built with and one that declares a word more
TwoHeaders(normal, translate) == {Header(normal, translate), Header(normal + 1, translate)}

\* the shape a command expects and one with a wrong header
TwoShapes(normal, translate, buffer_id) ==
    {Shape(Header(normal, translate), buffer_id),
     Shape(Header(normal, translate + 2), buffer_id)}

\* command ids no endpoint has a variant for, below and above 0x400
UnknownFrdUIds == {0, 55, 1023}
UnknownFrdAIds == {1024, 1026, 1040, 1041, 65535}

\* parameter words of GetFriendKeyList: 0, 1 and 0xffffffff
KeyListWords == {Word(0, 0), Word(0, 1), Word(65535, 65535)}

\* result codes sent to ResultToErrorCode: success, a code of another module
\* and the two kinds of codes of this module (0xc880c501, 0xc880c402)
ResultCodes == {0, 50176, 50433 - 8388608, 50178 - 8388608}

NexPasswords == {<<112, 119>>, <<112, 0, 119>>}

InitService == InitServing(<<FriendOf(1)>>)

NextService ==
    \/ Waiting /\ \E s \in Sessions : GetWiFiEvent(s)
    \/ Waiting /\ \E s \in Sessions, env \in Envs : ConnectToWiFi(s, env)
    \/ Waiting /\ \E s \in Sessions, w \in {3}, env \in Envs : DisconnectFromWiFi(s, w, env)
    \/ Waiting /\ \E s \in Sessions : GetWiFiState(s)
    \/ Waiting /\ \E s \in Sessions, id \in FrdNUnknownIds : FrdNInvalidCommand(s, id)
    \/ Waiting /\ \E s \in Sessions, service \in {"frd:u", "frd:a"}, id \in ReplyOnlyCommands,
          h \in TwoHeaders(0, 0) :
          /\ service = "frd:u" \/ (h = Header(0, 0) /\ id \in {1, FrdU_GetExtendedNatProperties})
          /\ ReplyOnly(service, s, id, h)
    \/ Waiting /\ \E s \in Sessions, h \in TwoHeaders(0, 2), e \in Popped(Handles), sig_ok \in BOOLEAN :
          /\ e.ok \/ sig_ok
          /\ Login(s, h, e, sig_ok)
    \/ Waiting /\ \E s \in Sessions, h \in TwoHeaders(0, 0) : GetMyPresence(s, h)
    \/ Waiting /\ \E s \in Sessions, h \in TwoHeaders(0, 0) : GetMyPlayingGame(s, h)
    \/ Waiting /\ \E s \in Sessions, h \in TwoHeaders(0, 0), p \in NexPasswords :
          GetMyPassword(s, h, p)
    \/ Waiting /\ \E s \in Sessions, h \in TwoHeaders(2, 0), offset \in KeyListWords,
          requested \in KeyListWords, overflow_checks \in BOOLEAN :
          GetFriendKeyList(s, h, offset, requested, overflow_checks)
    \/ Waiting /\ \E s \in Sessions, sh \in TwoShapes(1, 2, 0) :
          GetFriendPresence(s, sh.header, sh.buffer_id, ServiceBatchInput.max,
                            ServiceBatchInput.friend_keys)
    \/ Waiting /\ \E s \in Sessions, sh \in TwoShapes(5, 2, 0) :
          GetFriendScreenName(s, sh.header, sh.buffer_id, BigWord, BigWord,
                              ServiceBatchInput.max, ServiceBatchInput.friend_keys)
    \/ Waiting /\ \E s \in Sessions, sh \in TwoShapes(1, 4, 0) :
          GetFriendMii(s, sh.header, sh.buffer_id, ServiceBatchInput.max,
                       ServiceBatchInput.friend_keys, OutBuffer(StaleMii, 1))
    \/ Waiting /\ \E s \in Sessions, sh \in TwoShapes(1, 2, 0) :
          GetFriendProfile(s, sh.header, sh.buffer_id, ServiceBatchInput.max,
                           ServiceBatchInput.friend_keys)
    \/ Waiting /\ \E s \in Sessions, sh \in TwoShapes(1, 2, 0) :
          GetFriendRelationship(s, sh.header, sh.buffer_id, ServiceBatchInput.max,
                                ServiceBatchInput.friend_keys)
    \/ Waiting /\ \E s \in Sessions, sh \in TwoShapes(1, 2, 0) :
          GetFriendAttributeFlags(s, sh.header, sh.buffer_id, ServiceBatchInput.max,
                                  ServiceBatchInput.friend_keys)
    \/ Waiting /\ \E s \in Sessions, sh \in TwoShapes(1, 4, 0) :
          GetFriendPlayingGame(s, sh.header, sh.buffer_id, ServiceBatchInput.max,
                               ServiceBatchInput.friend_keys, OutBuffer(StaleGameKey, 1))
    \/ Waiting /\ \E s \in Sessions, sh \in TwoShapes(1, 2, 0) :
          GetFriendFavoriteGame(s, sh.header, sh.buffer_id, ServiceBatchInput.max,
                                ServiceBatchInput.friend_keys)
    \/ Waiting /\ \E s \in Sessions, sh \in TwoShapes(3, 4, 0) :
          GetFriendInfo(s, sh.header, sh.buffer_id, ServiceBatchInput.max, 0, 0,
                        ServiceBatchInput.friend_keys, OutBuffer(StaleFriendInfo, 1))
    \/ Waiting /\ \E s \in Sessions, h \in TwoHeaders(2, 0), c \in {11, 12} :
          IsIncludedInFriendList(s, h, c)
    \/ Waiting /\ \E s \in Sessions, sh \in TwoShapes(1, 2, 1) :
          UnscrambleLocalFriendCode(s, sh.header, sh.buffer_id, ServiceBatchInput.max,
                                    ScrambledOf(ServiceBatchInput.friend_keys))
    \/ Waiting /\ \E s \in Sessions, h \in Headers(0, 2), e \in Popped(Handles) :
          AttachToEventNotification(s, h, e)
    \/ Waiting /\ \E s \in Sessions, h \in TwoHeaders(1, 0) :
          SetNotificationMask(s, h, BigWord)
    \/ Waiting /\ \E s \in Sessions, h \in Headers(1, 2) :
          GetEventNotification(s, h, 1, OutBuffer(StaleNotificationEvent, 1))
    \/ Waiting /\ \E s \in Sessions, id \in {0, 1} :
          PrincipalIdToFriendCode(s, Word(0, id))
    \/ Waiting /\ \E s \in Sessions, code \in {U64(Word(0, 0), Word(0, 1))} :
          FriendCodeToPrincipalId(s, code)
    \/ Waiting /\ \E s \in Sessions, code \in {U64(Word(0, 0), Word(0, 1))} :
          IsValidFriendCode(s, code)
    \/ Waiting /\ \E s \in Sessions, h \in TwoHeaders(1, 0), c \in ResultCodes :
          ResultToErrorCode(s, h, c)
    \/ Waiting /\ \E s \in Sessions, h \in Headers(9, 4), p \in PoppedParams,
          f \in Fetched({GameAuthenticationData(1, 200, <<127, 0, 0, 1>>, 7000, 0, <<1>>, 20210102)},
                        Default_GameAuthenticationData),
          sig_ok \in BOOLEAN :
          /\ h = Header(9, 4) \/ (p.ok /\ ~f.ok /\ sig_ok)
          /\ p.ok \/ (~f.ok /\ sig_ok)
          /\ RequestGameAuthentication(s, h, p, f, sig_ok)
    \/ Waiting /\ \E s \in Sessions, h \in TwoHeaders(0, 0) : GetGameAuthenticationData(s, h)
    \/ Waiting /\ \E s \in Sessions, h \in Headers(8, 4), p \in PoppedParams,
          f \in Fetched({ServiceLocateData(7, 200, <<110>>, <<1>>, <<89>>, 20210102)},
                        Default_ServiceLocateData),
          i \in TimeIntervals, sig_ok \in BOOLEAN :
          /\ h = Header(8, 4) \/ (p.ok /\ ~f.ok /\ sig_ok)
          /\ p.ok \/ (~f.ok /\ sig_ok)
          /\ RequestServiceLocator(s, h, p, f, i, sig_ok)
    \/ Waiting /\ \E s \in Sessions, h \in TwoHeaders(0, 0) : GetServiceLocatorData(s, h)
    \/ Waiting /\ \E s \in Sessions, h \in TwoHeaders(0, 2), e \in Popped(Handles), sig_ok \in BOOLEAN :
          /\ e.ok \/ sig_ok
          /\ DetectNatProperties(s, h, e, sig_ok)
    \/ Waiting /\ \E s \in Sessions, h \in TwoHeaders(0, 0) : GetServerTimeInterval(s, h)
    \/ Waiting /\ \E s \in Sessions, sh \in TwoShapes(2, 2, 0) :
          GetFriendComment(s, sh.header, sh.buffer_id, ServiceBatchInput.max, 0,
                           ServiceBatchInput.friend_keys)
    \/ Waiting /\ \E s \in Sessions, h \in Headers(1, 2), v \in SdkVersions, p \in Popped(ProcessIds) :
          SetClientSdkVersion(s, h, v, p)
    \/ Waiting /\ \E s \in Sessions, service \in {"frd:u", "frd:a"}, id \in UnknownFrdUIds,
          h \in TwoHeaders(0, 0) :
          FrdUInvalidCommand(service, s, id, h)
    \/ Waiting /\ \E s \in Sessions, id \in {FrdA_CreateLocalAccount, FrdA_HasUserData, FrdA_SetMyData},
          h \in TwoHeaders(0, 0) :
          FrdAReplyOnly(s, id, h)
    \/ Waiting /\ \E s \in Sessions, h \in TwoHeaders(4, 0) :
          SetPresenseGameKey(s, h, 1033, 2, 0)
    \/ Waiting /\ \E s \in Sessions, id \in UnknownFrdAIds, h \in TwoHeaders(0, 0) :
          FrdAInvalidCommand(s, id, h)
    \/ SendReply

SpecService == InitService /\ [][NextService]_vars


----------------------------------------------------------------------------
(* Claims about the whole service *)

\* the request an endpoint has no handler for: frd:n outside 1..4, frd:u
\* outside 0x01..0x36, frd:a from 0x400 on without an arm of its own
UnknownCommand(service, command_id) ==
    \/ /\ service = "frd:n"
       /\ command_id \notin FrdN_GetWiFiEvent..FrdN_GetWiFiState
    \/ /\ service = "frd:u"
       /\ command_id \notin 1..FrdU_GetExtendedNatProperties
    \/ /\ service = "frd:a"
       /\ command_id >= FrdA_FirstCommand
       /\ command_id \notin {FrdA_CreateLocalAccount, FrdA_HasUserData,
                             FrdA_SetPresenseGameKey, FrdA_SetMyData}

\* C15: a request with an unknown command code, on frd:u, frd:n or frd:a, is
\* answered with InvalidCommand and nothing else, and the step that serves it
\* leaves the whole context (WiFi state, friend list, online activity and
\* every session context) as it was
C15_UnknownCommandIsInvalidCommand ==
    [][(Waiting /\ UnknownCommand(request'.service, request'.command_id))
          => /\ reply'.result = InvalidCommand
             /\ reply'.words = <<>>
             /\ reply'.static_buffers = <<>>
             /\ svc_calls' = <<>>
             /\ UNCHANGED ctx_vars]_vars

\* an unknown frd:a command was answered after earlier requests had changed
\* the WiFi state, a session context and the online activity
C15_Witness ==
    /\ request.service = "frd:a"
    /\ UnknownCommand(request.service, request.command_id)
    /\ reply.result = InvalidCommand
    /\ ndm_wifi_state = 2
    /\ my_online_activity # Default_OnlineActivity
    /\ session_contexts # <<SessionContext_new>>
    /\ session_contexts = request.pre_sessions


\* the header each command of frd:u is built with: the counts its handler
\* passes to validate_header, and for SetNotificationMask, which passes none,
\* the one word its request carries
FixedSignature(command_id) ==
    CASE command_id = FrdU_AttachToEventNotification -> Header(0, 2)
      [] command_id = FrdU_SetNotificationMask -> Header(1, 0)
      [] command_id = FrdU_GetEventNotification -> Header(1, 2)
      [] command_id = FrdU_RequestGameAuthentication -> Header(9, 4)
      [] command_id = FrdU_RequestServiceLocator -> Header(8, 4)
      [] command_id = FrdU_SetClientSdkVersion -> Header(1, 2)
      [] OTHER -> Signature(command_id).header

SignedCommands ==
    StaticBufferQueries \cup WriteBufferQueries \cup
    {FrdU_GetFriendPresence, FrdU_GetFriendScreenName, FrdU_AttachToEventNotification,
     FrdU_SetNotificationMask, FrdU_GetEventNotification, FrdU_RequestGameAuthentication,
     FrdU_RequestServiceLocator, FrdU_SetClientSdkVersion}

\* the request in service found the context as it is now
ContextAsFound ==
    /\ ndm_wifi_state = request.pre.ndm
    /\ wifi_connection_status = request.pre.status
    /\ session_contexts = request.pre_sessions

\* C16: a known command whose request declares a number of normal words or
\* of translate words other than the command's fixed signature is answered
\* with InvalidCommand (the code of that name of either family) and none of
\* the handler's effects has happened: no kernel call was made and the
\* context is as the request found it
C16_WrongShapeIsRejected ==
    (/\ request.service \in {"frd:u", "frd:a"}
     /\ request.command_id \in SignedCommands
     /\ request.header # FixedSignature(request.command_id)
     /\ reply # NoReply)
        => /\ reply.result \in {InvalidCommand, GenericInvalidCommand}
           /\ svc_calls = <<>>
           /\ ContextAsFound


\* C17: handlers are atomic on failure: when a request on any endpoint ends
\* in an error, ndm_wifi_state, wifi_connection_status and every session
\* context are exactly as the request found them
C17_AtomicOnFailure ==
    (/\ reply # NoReply
     /\ reply.result \notin {Success, Panicked})
        => ContextAsFound


\* C18: no request crashes the service: whatever the command, its
\* parameters, handles and buffers, the handler returns a reply or an error
\* code and never panics
C18_NoRequestPanics == reply.result # Panicked


----------------------------------------------------------------------------
(* Claims about ConnectToWiFi and DisconnectFromWiFi *)

\* the handler in service made the call
Called(call) == \E i \in 1..Len(svc_calls) : svc_calls[i] = call

\* C19: ConnectToWiFi that finds the status Idle sets ndm_wifi_state to 2 and
\* passes through Connecting (the wake signal of that change is its first
\* call); when the provider's quick_connect succeeds it ends with the status
\* Connected and a success reply, when quick_connect fails it ends with the
\* status Idle and the provider's error as the reply
C19_ConnectFromIdle ==
    (/\ request.service = "frd:n"
     /\ request.command_id = FrdN_ConnectToWiFi
     /\ request.pre.status = Idle
     /\ reply # NoReply)
        => /\ ndm_wifi_state = 2
           /\ svc_calls # <<>>
           /\ Head(svc_calls).fn = "signal_event"
           /\ Called(QuickConnect(TRUE))
                  => /\ wifi_connection_status = Connected
                     /\ reply.result = Success
           /\ Called(QuickConnect(FALSE))
                  => /\ wifi_connection_status = Idle
                     /\ reply.result = QuickConnectError


\* C20: after a successful DisconnectFromWiFi(n), ndm_wifi_state is the low
\* eight bits of n with bit 0 flipped, whatever ndm_wifi_state and the
\* connection status were before
C20_DisconnectSetsNdmState ==
    (/\ request.service = "frd:n"
     /\ request.command_id = FrdN_DisconnectFromWiFi
     /\ reply.result = Success)
        => LET low == request.words[1] % 256
           IN  ndm_wifi_state = IF low % 2 = 0 THEN low + 1 ELSE low - 1

\* a connected service with ndm_wifi_state 2 served DisconnectFromWiFi(0x100)
\* and ndm_wifi_state is 1
C20_Witness ==
    /\ request.service = "frd:n"
    /\ request.command_id = FrdN_DisconnectFromWiFi
    /\ reply.result = Success
    /\ request.words = <<256>>
    /\ request.pre = [ndm |-> 2, status |-> Connected]
    /\ wifi_connection_status = Idle
    /\ ndm_wifi_state = 1


----------------------------------------------------------------------------
(* Startup (main.rs, frd/context/ctr.rs, frd/save) and the session registry *)
(* (frd/context/shared.rs)                                                  *)

InvalidAccountSaveFile == "InvalidAccountSaveFile"
InvalidFriendListOrMyDataSaveFile == "InvalidFriendListOrMyDataSaveFile"
Utf16Error == "bytes_to_utf16le_string error"

\* FriendServiceContext::new() has not run yet
StartupPending == "pending"

\* AccountConfig::try_from_le_bytes: the result of the parse
AccountConfig_try_from_le_bytes(raw_data) ==
    IF u64_from_le_bytes(raw_data.header) # AccountMagic THEN InvalidAccountSaveFile
    ELSE IF ~raw_data.strings_ok THEN Utf16Error
    ELSE Success

\* MyData::try_from_le_bytes: the result of the parse
MyData_try_from_le_bytes(raw_data) ==
    IF u64_from_le_bytes(raw_data.header) # MyDataMagic
    THEN InvalidFriendListOrMyDataSaveFile
    ELSE IF ~raw_data.strings_ok THEN Utf16Error
    ELSE Success

\* a read of the friend list that does not stop at MAX_FRIEND_COUNT entries
read_friend_list_whole_file(friend_file) == friend_file.entries

\* read_friend_list: the entries after the first 16 bytes of the file, up to
\* MAX_FRIEND_COUNT of them; the first 16 bytes are never read
read_friend_list(friend_file) == Take(friend_file.entries, MAX_FRIEND_COUNT)

\* FriendServiceContext::new(): the friend list is read, then the account,
\* then my data; `?' returns the first error
FriendServiceContext_new(archive) ==
    LET friends == read_friend_list(archive.friendlist)
        account == AccountConfig_try_from_le_bytes(archive.account)
        my_data == MyData_try_from_le_bytes(archive.mydata)
    IN  IF account # Success THEN [result |-> account, friend_list |-> <<>>]
        ELSE IF my_data # Success THEN [result |-> my_data, friend_list |-> <<>>]
        ELSE [result |-> Success, friend_list |-> friends]

\* main: FriendSysmodule::new() unwraps the context; on an error the process
\* panics and no service is ever registered
Startup ==
    /\ startup = StartupPending
    /\ LET context == FriendServiceContext_new(save_archive)
       IN  /\ startup' = context.result
           /\ friend_list' = context.friend_list
    /\ ndm_wifi_state' = 0
    /\ wifi_connection_status' = Idle
    /\ my_online_activity' = Default_OnlineActivity
    /\ session_contexts' = <<>>
    /\ UNCHANGED <<save_archive, registry, request, reply, svc_calls, out_buffer>>

\* the most sessions open at a time
MaxSessions == 3

\* the most accept_session calls of a run
MaxAccepts == 3

\* ServiceManager::run accepts a client: FriendSysmodule::accept_session
AcceptSession ==
    /\ startup = Success
    /\ Waiting
    /\ Len(session_contexts) < MaxSessions
    /\ registry.accepts < MaxAccepts
    /\ session_contexts' = accept_session(session_contexts)
    /\ registry' = [accepts |-> registry.accepts + 1, closes |-> registry.closes,
                    last |-> "accept_session", index |-> Len(session_contexts),
                    pre |-> session_contexts]
    /\ UNCHANGED <<ndm_wifi_state, wifi_connection_status, friend_list, my_online_activity,
                   save_archive, startup, request, reply, svc_calls, out_buffer>>

\* a removal that leaves a default session in the slot
close_session_resets_slot(contexts, session_index) ==
    [contexts EXCEPT ![session_index + 1] = SessionContext_new]

\* ServiceContext::close_session: Vec::remove(session_index)
close_session(contexts, session_index) ==
    [j \in 1..(Len(contexts) - 1) |->
        IF j <= session_index THEN contexts[j] ELSE contexts[j + 1]]

\* a client disconnected: FriendSysmodule::close_session
CloseSession(session_index) ==
    /\ startup = Success
    /\ Waiting
    /\ session_index \in Sessions
    /\ session_contexts' = close_session(session_contexts, session_index)
    /\ registry' = [accepts |-> registry.accepts, closes |-> registry.closes + 1,
                    last |-> "close_session", index |-> session_index,
                    pre |-> session_contexts]
    /\ UNCHANGED <<ndm_wifi_state, wifi_connection_status, friend_list, my_online_activity,
                   save_archive, startup, request, reply, svc_calls, out_buffer>>

----------------------------------------------------------------------------
(* Startup on save archives with right and with wrong headers, then the     *)
(* first sessions and requests                                              *)

\* headers of a file: the magic of the account file, of the my data file, of
\* the friend list file, and the account magic with its last byte changed
FileHeaders ==
    {u64_to_le_bytes(AccountMagic), u64_to_le_bytes(MyDataMagic),
     u64_to_le_bytes(FriendListHeader),
     [u64_to_le_bytes(AccountMagic) EXCEPT ![8] = 33]}

SaveArchives ==
    {SaveArchive(a, as, f, entries, m, ms) :
        a \in FileHeaders \ {u64_to_le_bytes(FriendListHeader)}, as \in BOOLEAN,
        f \in {u64_to_le_bytes(FriendListHeader), u64_to_le_bytes(AccountMagic)},
        entries \in {<<>>, <<FriendOf(1)>>},
        m \in {u64_to_le_bytes(MyDataMagic), u64_to_le_bytes(AccountMagic)},
        ms \in BOOLEAN}

InitStartup ==
    /\ ndm_wifi_state = 0
    /\ wifi_connection_status = Idle
    /\ friend_list = <<>>
    /\ my_online_activity = Default_OnlineActivity
    /\ save_archive \in SaveArchives
    /\ startup = StartupPending
    /\ session_contexts = <<>>
    /\ registry = NoRegistryCalls(0)
    /\ request = NoRequest
    /\ reply = NoReply
    /\ svc_calls = <<>>
    /\ out_buffer = <<>>

NextStartup ==
    \/ Startup
    \/ AcceptSession
    \/ \E s \in Sessions : CloseSession(s)
    \/ Waiting /\ \E s \in Sessions : GetWiFiState(s)
    \/ Waiting /\ \E s \in Sessions, c \in {11, 12} :
          IsIncludedInFriendList(s, Header(2, 0), c)
    \/ SendReply

SpecStartup == InitStartup /\ [][NextStartup]_vars

\* the first eight bytes of the file are the magic
HasMagic(file, magic) == u64_from_le_bytes(file.header) = magic

\* some file of the archive does not begin with its magic
BadMagic ==
    \/ ~HasMagic(save_archive.account, AccountMagic)
    \/ ~HasMagic(save_archive.friendlist, FriendListHeader)
    \/ ~HasMagic(save_archive.mydata, MyDataMagic)

\* C21: when the account, the friend list or the my data file does not begin
\* with its magic header, startup fails and no session or request is ever
\* accepted: a wrong account header ends startup with InvalidAccountSaveFile,
\* a wrong friend list or my data header (the files being well formed
\* otherwise) with InvalidFriendListOrMyDataSaveFile
C21_BadMagicAbortsStartup ==
    /\ BadMagic
           => /\ startup # Success
              /\ session_contexts = <<>>
              /\ request = NoRequest
    /\ ~HasMagic(save_archive.account, AccountMagic)
           => startup \in {StartupPending, InvalidAccountSaveFile}
    /\ (/\ HasMagic(save_archive.account, AccountMagic)
        /\ save_archive.account.strings_ok
        /\ save_archive.mydata.strings_ok
        /\ \/ ~HasMagic(save_archive.friendlist, FriendListHeader)
           \/ ~HasMagic(save_archive.mydata, MyDataMagic))
           => startup \in {StartupPending, InvalidFriendListOrMyDataSaveFile}


----------------------------------------------------------------------------
(* Claims about the WiFi state over whole runs *)

\* C22: in every state reached through ConnectToWiFi and DisconnectFromWiFi
\* requests with any parameter word, ndm_wifi_state is 0, 1 or 2
C22_NdmStateInRange == ndm_wifi_state \in {0, 1, 2}

\* C23: Connecting and Disconnecting are transient: whenever no request is
\* being processed, before the first request and after every request has
\* returned with a reply or with an error, wifi_connection_status is Idle or
\* Connected
C23_TransientStatuses ==
    Waiting => wifi_connection_status \in {Idle, Connected}


\* C24: ConnectToWiFi that finds a status other than Idle leaves the status
\* as it was, does not call quick_connect, sets ndm_wifi_state to 2 and
\* signals the WiFi event exactly once if the ndm state it found was not 2,
\* not at all if it was 2
C24_ConnectWhileNotIdle ==
    (/\ request.service = "frd:n"
     /\ request.command_id = FrdN_ConnectToWiFi
     /\ request.pre.status # Idle
     /\ reply # NoReply)
        => /\ wifi_connection_status = request.pre.status
           /\ CallsOf(svc_calls, "quick_connect") = 0
           /\ ndm_wifi_state = 2
           /\ CallsOf(svc_calls, "signal_event") = IF request.pre.ndm # 2 THEN 1 ELSE 0
           /\ Len(svc_calls) = CallsOf(svc_calls, "signal_event")

\* ConnectToWiFi found the status Disconnecting and the ndm state 0, and
\* signalled once
C24_Witness ==
    /\ request.service = "frd:n"
    /\ request.command_id = FrdN_ConnectToWiFi
    /\ request.pre = [ndm |-> 0, status |-> Disconnecting]
    /\ reply.result = Success
    /\ svc_calls = <<SignalWifiEvent(TRUE)>>

\* ConnectToWiFi found the status Connected and the ndm state 2, and did not
\* signal
C24_WitnessNoSignal ==
    /\ request.service = "frd:n"
    /\ request.command_id = FrdN_ConnectToWiFi
    /\ request.pre = [ndm |-> 2, status |-> Connected]
    /\ reply.result = Success
    /\ svc_calls = <<>>


\* C25: DisconnectFromWiFi that finds the status Connected calls the
\* provider's disconnect and ends with the status Idle; in any other status
\* it never calls the provider's disconnect, leaves the status as it was and
\* signals the WiFi event exactly when the ndm state it found was 2
C25_DisconnectByStatus ==
    (/\ request.service = "frd:n"
     /\ request.command_id = FrdN_DisconnectFromWiFi
     /\ reply # NoReply)
        => IF request.pre.status = Connected
           THEN /\ CallsOf(svc_calls, "disconnect") = 1
                /\ wifi_connection_status = Idle
           ELSE /\ CallsOf(svc_calls, "disconnect") = 0
                /\ wifi_connection_status = request.pre.status
                /\ CallsOf(svc_calls, "signal_event") = IF request.pre.ndm = 2 THEN 1 ELSE 0


----------------------------------------------------------------------------
(* The session registry: sessions are accepted and closed in any order and  *)
(* mark themselves with a notification mask                                 *)

\* the masks sessions mark themselves with
SessionMarks == {1, 2, 3}

InitRegistry ==
    /\ ndm_wifi_state = 0
    /\ wifi_connection_status = Idle
    /\ friend_list = <<>>
    /\ my_online_activity = Default_OnlineActivity
    /\ save_archive = ValidSaveArchive(friend_list)
    /\ startup = Success
    /\ session_contexts = <<>>
    /\ registry = NoRegistryCalls(0)
    /\ request = NoRequest
    /\ reply = NoReply
    /\ svc_calls = <<>>
    /\ out_buffer = <<>>

NextRegistry ==
    \/ AcceptSession
    \/ \E s \in Sessions : CloseSession(s)
    \/ Waiting /\ \E s \in Sessions, w \in SessionMarks :
          SetNotificationMask(s, Header(1, 0), w)
    \/ SendReply

SpecRegistry == InitRegistry /\ [][NextRegistry]_vars

\* a session in the default state: no authentication or locator response, an
\* empty notification queue, mask 0, no client event, an empty scratch buffer
InDefaultState(session) ==
    /\ ~session.last_game_authentication_response.some
    /\ ~session.last_service_locator_response.some
    /\ session.client_event_queue = <<>>
    /\ session.notification_mask = 0
    /\ ~session.client_event.some
    /\ session.static_buffer = <<>>

\* the step is a call of accept_session
AcceptStep == registry'.accepts = registry.accepts + 1

\* the step is a call of close_session
CloseStep == registry'.closes = registry.closes + 1

\* C26: accept_session appends a session in the default state at the index
\* equal to the session count before and keeps every other session;
\* close_session(i) removes exactly session i: the sessions before i stay,
\* every session that was at an index j > i is at j - 1 afterwards with its
\* state intact; the session count is always accepts minus closes
C26_SessionRegistry ==
    /\ [](Len(session_contexts) = registry.accepts - registry.closes)
    /\ [][/\ AcceptStep
              => /\ Len(session_contexts') = Len(session_contexts) + 1
                 /\ registry'.index = Len(session_contexts)
                 /\ InDefaultState(session_contexts'[registry'.index + 1])
                 /\ \A j \in 1..Len(session_contexts) :
                        session_contexts'[j] = session_contexts[j]
          /\ CloseStep
              => /\ Len(session_contexts') = Len(session_contexts) - 1
                 /\ \A j \in 1..Len(session_contexts') :
                        session_contexts'[j] =
                            IF j <= registry'.index THEN session_contexts[j]
                            ELSE session_contexts[j + 1]]_vars

\* three sessions had marked themselves, session 0 was closed, and a request
\* carrying index 0 found the session that had been at index 1, with its mask
C26_Witness ==
    /\ registry.last = "close_session"
    /\ registry.index = 0
    /\ Len(registry.pre) = 3
    /\ registry.pre[1].notification_mask = 1
    /\ registry.pre[2].notification_mask = 2
    /\ registry.pre[3].notification_mask = 3
    /\ IsFrdU(FrdU_SetNotificationMask)
    /\ request.session_index = 0
    /\ FoundSession = registry.pre[2]
    /\ request.pre_sessions = <<registry.pre[2], registry.pre[3]>>


----------------------------------------------------------------------------
(* Claims about the requests to the game server *)

\* the handler in service signalled the client's event
SignalledClient == \E i \in 1..Len(svc_calls) : svc_calls[i].fn = SignalClientEvent(TRUE).fn

\* the request passed the header check and the parameter pops
ParametersAccepted(normal, translate) ==
    /\ request.header = Header(normal, translate)
    /\ request.words[1].ok

\* C27: RequestGameAuthentication and RequestServiceLocator signal the
\* caller's event during the request itself, and only once the parsed
\* response is stored in the calling session; when the request to the game
\* server cannot be built, downloaded or parsed, the event is not signalled
\* and the response the session had stored before is kept
C27_SignalOnlyAfterStore ==
    /\ (IsFrdU(FrdU_RequestGameAuthentication) /\ reply # NoReply) =>
         LET stored == OwnSession.last_game_authentication_response
             fetched == request.words[2]
         IN  /\ reply.result = Success => svc_calls = <<SignalClientEvent(TRUE)>>
             /\ SignalledClient
                    => /\ fetched.ok
                       /\ stored.some
                       /\ stored.value = fetched.value
             /\ (ParametersAccepted(9, 4) /\ ~fetched.ok)
                    => /\ reply.result = fetched.error
                       /\ svc_calls = <<>>
                       /\ stored = FoundSession.last_game_authentication_response
    /\ (IsFrdU(FrdU_RequestServiceLocator) /\ reply # NoReply) =>
         LET stored == OwnSession.last_service_locator_response
             fetched == request.words[2]
         IN  /\ reply.result = Success => svc_calls = <<SignalClientEvent(TRUE)>>
             /\ SignalledClient
                    => /\ fetched.ok
                       /\ stored.some
                       /\ stored.value = fetched.value
             /\ (ParametersAccepted(8, 4) /\ ~fetched.ok)
                    => /\ reply.result = fetched.error
                       /\ svc_calls = <<>>
                       /\ stored = FoundSession.last_service_locator_response

\* a session that held a response asked again: the new response is stored
\* and the event was signalled
C27_Witness ==
    /\ IsFrdU(FrdU_RequestGameAuthentication)
    /\ reply.result = Success
    /\ svc_calls = <<SignalClientEvent(TRUE)>>
    /\ FoundSession.last_game_authentication_response.some
    /\ OwnSession.last_game_authentication_response.some
    /\ OwnSession.last_game_authentication_response.value = request.words[2].value
    /\ OwnSession.last_game_authentication_response
           # FoundSession.last_game_authentication_response

\* a session that held a response asked again and the fetch failed: no
\* signal, and the response is kept
C27_WitnessFailedFetch ==
    /\ IsFrdU(FrdU_RequestServiceLocator)
    /\ reply.result = FetchError
    /\ svc_calls = <<>>
    /\ FoundSession.last_service_locator_response.some
    /\ OwnSession.last_service_locator_response = FoundSession.last_service_locator_response


----------------------------------------------------------------------------
(* Claims about the shape checks of the batch queries *)

\* the commands that check their header and the slot of their input list
ShapeValidatingCommands == StaticBufferQueries \cup WriteBufferQueries \cup {FrdU_GetFriendScreenName}

\* the request in service is a batch query whose header or slot is not the
\* one the command declares
WronglyShapedBatchQuery ==
    /\ reply # NoReply
    /\ request.service = "frd:u"
    /\ request.command_id \in ShapeValidatingCommands
    /\ ~WellShaped(request)

\* C28: a batch query (GetFriendPresence, GetFriendScreenName, GetFriendMii,
\* GetFriendProfile, GetFriendRelationship, GetFriendAttributeFlags,
\* GetFriendPlayingGame, GetFriendFavoriteGame, GetFriendInfo,
\* GetFriendComment, UnscrambleLocalFriendCode) whose request declares a wrong
\* number of normal words or of translate words, or carries its input list in
\* the wrong static-buffer slot, is answered InvalidCommand, and nothing was
\* modified: the global state and every session, the static buffer of the
\* calling session included, are as the request found them, no buffer is
\* returned and the caller's output buffer is untouched
C28_WrongShapeRejectedBeforeAnyWrite ==
    WronglyShapedBatchQuery =>
        /\ reply.result \in {InvalidCommand, GenericInvalidCommand}
        /\ reply.static_buffers = <<>>
        /\ ContextAsFound
        /\ OwnSession.static_buffer = FoundSession.static_buffer
        /\ friend_list = save_archive.friendlist.entries
        /\ my_online_activity = Default_OnlineActivity
        /\ out_buffer = request.mut_buffer
        /\ svc_calls = <<>>

\* a query with its list in the wrong slot was rejected in a session whose
\* static buffer holds the result of an earlier query
C28_Witness ==
    /\ WronglyShapedBatchQuery
    /\ request.header = Signature(request.command_id).header
    /\ request.buffer_id # Signature(request.command_id).buffer_id
    /\ reply.result = GenericInvalidCommand
    /\ FoundSession.static_buffer # <<>>
    /\ OwnSession.static_buffer = FoundSession.static_buffer

\* a query with a wrong header was rejected in such a session
C28_WitnessWrongHeader ==
    /\ WronglyShapedBatchQuery
    /\ request.header # Signature(request.command_id).header
    /\ reply.result = GenericInvalidCommand
    /\ FoundSession.static_buffer # <<>>
    /\ OwnSession.static_buffer = FoundSession.static_buffer


----------------------------------------------------------------------------
(* The two client endpoints: a session of frd:u and a session of frd:a     *)

\* the arms of handle_frdu_request, each with the requests the model sends it
handle_frdu_request(s, command_id) ==
    \/ /\ command_id \in ReplyOnlyCommands
       /\ ReplyOnly("frd:u", s, command_id, Header(0, 0))
    \/ /\ command_id = FrdU_Login
       /\ \E h \in TwoHeaders(0, 2), e \in Popped(Handles) : Login(s, h, e, TRUE)
    \/ /\ command_id = FrdU_GetMyPresence
       /\ GetMyPresence(s, Header(0, 0))
    \/ /\ command_id = FrdU_GetMyPlayingGame
       /\ \E h \in TwoHeaders(0, 0) : GetMyPlayingGame(s, h)
    \/ /\ command_id = FrdU_GetMyPassword
       /\ \E p \in NexPasswords : GetMyPassword(s, Header(0, 0), p)
    \/ /\ command_id = FrdU_GetFriendKeyList
       /\ \E offset \in {Word(0, 0), Word(65535, 65535)}, overflow_checks \in BOOLEAN :
             GetFriendKeyList(s, Header(2, 0), offset, Word(0, 1), overflow_checks)
    \/ /\ command_id = FrdU_GetFriendPresence
       /\ \E sh \in TwoShapes(1, 2, 0) :
             GetFriendPresence(s, sh.header, sh.buffer_id, ServiceBatchInput.max,
                               ServiceBatchInput.friend_keys)
    \/ /\ command_id = FrdU_GetFriendScreenName
       /\ \E sh \in {Shape(Header(5, 2), 0)} :
             GetFriendScreenName(s, sh.header, sh.buffer_id, BigWord, BigWord,
                                 ServiceBatchInput.max, ServiceBatchInput.friend_keys)
    \/ /\ command_id = FrdU_GetFriendMii
       /\ \E sh \in TwoShapes(1, 4, 0) :
             GetFriendMii(s, sh.header, sh.buffer_id, ServiceBatchInput.max,
                          ServiceBatchInput.friend_keys, OutBuffer(StaleMii, 1))
    \/ /\ command_id = FrdU_GetFriendProfile
       /\ \E sh \in {Shape(Header(1, 2), 0)} :
             GetFriendProfile(s, sh.header, sh.buffer_id, ServiceBatchInput.max,
                              ServiceBatchInput.friend_keys)
    \/ /\ command_id = FrdU_GetFriendRelationship
       /\ \E sh \in {Shape(Header(1, 2), 0)} :
             GetFriendRelationship(s, sh.header, sh.buffer_id, ServiceBatchInput.max,
                                   ServiceBatchInput.friend_keys)
    \/ /\ command_id = FrdU_GetFriendAttributeFlags
       /\ \E sh \in {Shape(Header(1, 2), 0)} :
             GetFriendAttributeFlags(s, sh.header, sh.buffer_id, ServiceBatchInput.max,
                                     ServiceBatchInput.friend_keys)
    \/ /\ command_id = FrdU_GetFriendPlayingGame
       /\ \E sh \in {Shape(Header(1, 4), 0)} :
             GetFriendPlayingGame(s, sh.header, sh.buffer_id, ServiceBatchInput.max,
                                  ServiceBatchInput.friend_keys, OutBuffer(StaleGameKey, 1))
    \/ /\ command_id = FrdU_GetFriendFavoriteGame
       /\ \E sh \in {Shape(Header(1, 2), 0)} :
             GetFriendFavoriteGame(s, sh.header, sh.buffer_id, ServiceBatchInput.max,
                                   ServiceBatchInput.friend_keys)
    \/ /\ command_id = FrdU_GetFriendInfo
       /\ \E sh \in {Shape(Header(3, 4), 0)} :
             GetFriendInfo(s, sh.header, sh.buffer_id, ServiceBatchInput.max, 0, 0,
                           ServiceBatchInput.friend_keys, OutBuffer(StaleFriendInfo, 1))
    \/ /\ command_id = FrdU_IsIncludedInFriendList
       /\ \E c \in {11, 12} : IsIncludedInFriendList(s, Header(2, 0), c)
    \/ /\ command_id = FrdU_UnscrambleLocalFriendCode
       /\ \E sh \in TwoShapes(1, 2, 1) :
             UnscrambleLocalFriendCode(s, sh.header, sh.buffer_id, ServiceBatchInput.max,
                                       ScrambledOf(ServiceBatchInput.friend_keys))
    \/ /\ command_id = FrdU_AttachToEventNotification
       /\ \E h \in TwoHeaders(0, 2), e \in Popped(Handles) : AttachToEventNotification(s, h, e)
    \/ /\ command_id = FrdU_SetNotificationMask
       /\ SetNotificationMask(s, Header(1, 0), BigWord)
    \/ /\ command_id = FrdU_GetEventNotification
       /\ \E h \in TwoHeaders(1, 2) :
             GetEventNotification(s, h, 1, OutBuffer(StaleNotificationEvent, 1))
    \/ /\ command_id = FrdU_PrincipalIdToFriendCode
       /\ \E id \in {0, 1} : PrincipalIdToFriendCode(s, Word(0, id))
    \/ /\ command_id = FrdU_FriendCodeToPrincipalId
       /\ FriendCodeToPrincipalId(s, U64(Word(0, 0), Word(0, 1)))
    \/ /\ command_id = FrdU_IsValidFriendCode
       /\ IsValidFriendCode(s, U64(Word(0, 0), Word(0, 1)))
    \/ /\ command_id = FrdU_ResultToErrorCode
       /\ \E c \in ResultCodes : ResultToErrorCode(s, Header(1, 0), c)
    \/ /\ command_id = FrdU_RequestGameAuthentication
       /\ \E f \in Fetched({GameAuthenticationData(1, 200, <<127, 0, 0, 1>>, 7000, 0, <<1>>, 20210102)},
                           Default_GameAuthenticationData) :
             RequestGameAuthentication(s, Header(9, 4), Ok(0), f, TRUE)
    \/ /\ command_id = FrdU_GetGameAuthenticationData
       /\ GetGameAuthenticationData(s, Header(0, 0))
    \/ /\ command_id = FrdU_RequestServiceLocator
       /\ \E f \in Fetched({ServiceLocateData(7, 200, <<110>>, <<1>>, <<89>>, 20210102)},
                           Default_ServiceLocateData),
             i \in TimeIntervals :
             RequestServiceLocator(s, Header(8, 4), Ok(0), f, i, TRUE)
    \/ /\ command_id = FrdU_GetServiceLocatorData
       /\ GetServiceLocatorData(s, Header(0, 0))
    \/ /\ command_id = FrdU_DetectNatProperties
       /\ \E e \in Popped(Handles) : DetectNatProperties(s, Header(0, 2), e, TRUE)
    \/ /\ command_id = FrdU_GetServerTimeInterval
       /\ GetServerTimeInterval(s, Header(0, 0))
    \/ /\ command_id = FrdU_GetFriendComment
       /\ \E sh \in {Shape(Header(2, 2), 0)} :
             GetFriendComment(s, sh.header, sh.buffer_id, ServiceBatchInput.max, 0,
                              ServiceBatchInput.friend_keys)
    \/ /\ command_id = FrdU_SetClientSdkVersion
       /\ \E h \in TwoHeaders(1, 2), v \in SdkVersions, p \in Popped(ProcessIds) :
             SetClientSdkVersion(s, h, v, p)
    \/ FrdUInvalidCommand("frd:u", s, command_id, Header(0, 0))

\* an frd:a request that is handed to handle_frdu_request whatever its id
handed_to_frdu_below_0x30(command_id) == command_id < 48

\* if command_id < 0x400
handed_to_frdu(command_id) == command_id < FrdA_FirstCommand

\* the game keys SetPresenseGameKey is sent: title id, version, extra word
PresenseGameKeys == {<<1033, 2, 9>>, <<7, 1, 0>>}

handle_frda_request(s, command_id) ==
    IF handed_to_frdu(command_id)
    THEN handle_frdu_request(s, command_id)
    ELSE \/ FrdAReplyOnly(s, command_id, Header(0, 0))
         \/ /\ command_id = FrdA_SetPresenseGameKey
            /\ \E h \in TwoHeaders(4, 0), k \in PresenseGameKeys :
                  SetPresenseGameKey(s, h, k[1], k[2], k[3])
         \/ /\ Waiting
            /\ command_id \notin {FrdA_CreateLocalAccount, FrdA_HasUserData,
                                  FrdA_SetPresenseGameKey, FrdA_SetMyData}
            /\ InvalidCommandArm(IpcRequest("frd:a", command_id, s, Header(0, 0), <<>>, 0, <<>>, <<>>),
                                 FrdA_InvalidCommand)
            /\ UNCHANGED ctx_vars

\* the service each session was accepted on: the first on frd:u, the second
\* on frd:a, the third on frd:n
ServiceOfSession(s) ==
    CASE s = 0 -> "frd:u"
      [] s = 1 -> "frd:a"
      [] OTHER -> "frd:n"

\* the command ids the two sessions send: every id frd:u has an arm for, ids
\* it has none for on both sides of 0x400, and the ids of the arms of frd:a
EndpointIds ==
    (1..FrdU_GetExtendedNatProperties) \cup UnknownFrdUIds \cup UnknownFrdAIds \cup
    {FrdA_CreateLocalAccount, FrdA_HasUserData, FrdA_SetPresenseGameKey, FrdA_SetMyData}

\* the ids the session of frd:u sends
FrdUSessionIds ==
    {FrdU_GetMyPlayingGame, FrdU_GetExtendedNatProperties} \cup UnknownFrdUIds \cup
    {FrdA_SetPresenseGameKey}

InitEndpoints ==
    /\ ndm_wifi_state = 0
    /\ wifi_connection_status = Idle
    /\ friend_list = <<FriendOf(1)>>
    /\ my_online_activity = Default_OnlineActivity
    /\ save_archive = ValidSaveArchive(friend_list)
    /\ startup = Success
    /\ session_contexts = accept_session(accept_session(accept_session(<<>>)))
    /\ registry = NoRegistryCalls(Len(session_contexts))
    /\ request = NoRequest
    /\ reply = NoReply
    /\ svc_calls = <<>>
    /\ out_buffer = <<>>

NextEndpoints ==
    \/ Waiting /\ \E s \in Sessions, command_id \in FrdUSessionIds :
          /\ ServiceOfSession(s) = "frd:u"
          /\ handle_frdu_request(s, command_id)
    \/ Waiting /\ \E s \in Sessions, command_id \in EndpointIds :
          /\ ServiceOfSession(s) = "frd:a"
          /\ handle_frda_request(s, command_id)
    \/ Waiting /\ \E s \in Sessions :
          /\ ServiceOfSession(s) = "frd:n"
          /\ ConnectToWiFi(s, [sig1 |-> TRUE, sig2 |-> TRUE, ac |-> TRUE])
    \/ Waiting /\ \E s \in Sessions :
          /\ ServiceOfSession(s) = "frd:n"
          /\ GetWiFiState(s)
    \/ Waiting /\ \E s \in Sessions, id \in FrdNUnknownIds :
          /\ ServiceOfSession(s) = "frd:n"
          /\ FrdNInvalidCommand(s, id)
    \/ SendReply

SpecEndpoints == InitEndpoints /\ [][NextEndpoints]_vars

----------------------------------------------------------------------------
(* Claims about the two client endpoints *)

\* C29: for every command id below 0x400, what frd:a does with a request
\* (the reply, the kernel calls, the output buffer and the change of the
\* context) is what handle_frdu_request does with the same request of the
\* same session from the same state
C29_FrdAServesFrdUCommands ==
    [][(/\ Waiting
        /\ request'.command_id \in EndpointIds
        /\ request'.command_id < 1024
        /\ ServiceOfSession(request'.session_index) = "frd:a"
        /\ handle_frda_request(request'.session_index, request'.command_id))
           => handle_frdu_request(request'.session_index, request'.command_id)]_vars

\* the session of frd:a sent a command of frd:u that changed its session
\* context and was answered with success
C29_Witness ==
    /\ reply # NoReply
    /\ ServiceOfSession(request.session_index) = "frd:a"
    /\ request.command_id \in 1..FrdU_GetExtendedNatProperties
    /\ reply.result = Success
    /\ OwnSession # FoundSession


\* the step serves a SetPresenseGameKey request that arrived on frd:a
ServesSetPresenseGameKey ==
    /\ Waiting
    /\ reply' # NoReply
    /\ request'.service = "frd:a"
    /\ request'.command_id = FrdA_SetPresenseGameKey

\* the game SetPresenseGameKey was sent
GameKeySent(req) == [title_id |-> req.words[1], version |-> req.words[2], unk |-> req.words[3]]

\* C30: the playing game has one writer. SetPresenseGameKey on frd:a stores
\* the title id, the version and the extra word it was given; every other
\* step, the requests of frd:u, frd:a and frd:n and the frd:u request with id
\* 0x40a (answered InvalidCommand) among them, leaves the playing game as it
\* was; GetMyPlayingGame answers with the playing game as it is, so with the
\* game stored last, and with the all-zero game as long as none was stored
C30_PlayingGameHasOneWriter ==
    /\ [][IF ServesSetPresenseGameKey
          THEN /\ my_online_activity'.playing_game = GameKeySent(request')
               /\ reply'.result = Success
          ELSE my_online_activity' = my_online_activity]_vars
    /\ []((reply # NoReply /\ request.command_id = FrdU_GetMyPlayingGame
           /\ request.header = Header(0, 0)) =>
              /\ reply.result = Success
              /\ reply.words = <<my_online_activity.playing_game.title_id,
                                 my_online_activity.playing_game.version,
                                 my_online_activity.playing_game.unk>>)
    /\ []((reply # NoReply /\ request.command_id = FrdA_SetPresenseGameKey
           /\ ServiceOfSession(request.session_index) = "frd:u") =>
              reply.result = InvalidCommand)
    /\ my_online_activity.playing_game = [title_id |-> 0, version |-> 0, unk |-> 0]

\* a game was stored on frd:a and GetMyPlayingGame, sent on frd:u, answered
\* with it
C30_Witness ==
    /\ reply # NoReply
    /\ request.command_id = FrdU_GetMyPlayingGame
    /\ ServiceOfSession(request.session_index) = "frd:u"
    /\ reply.words = <<7, 1, 0>>

\* the frd:u request with id 0x40a was answered while a game was stored
C30_WitnessFrdU ==
    /\ reply # NoReply
    /\ request.command_id = FrdA_SetPresenseGameKey
    /\ ServiceOfSession(request.session_index) = "frd:u"
    /\ reply.result = InvalidCommand
    /\ my_online_activity.playing_game.title_id = 1033


----------------------------------------------------------------------------
(* Startup followed by the commands that read the saved data or are stubs  *)

\* a friend list file with one entry more than MAX_FRIEND_COUNT
LongFriendFile == [i \in 1..(MAX_FRIEND_COUNT + 1) |-> FriendOf(1 + (i % 2))]

\* the archives the service starts from: no friend, one, and the long file
LoadedArchives == {ValidSaveArchive(entries) : entries \in {<<>>, <<FriendOf(1)>>, LongFriendFile}}

\* the ids of frd:u the sessions send: the getters of the saved data and the
\* commands that would change it (Logout, UpdateGameModeDescription,
\* UpdateGameMode, SendInvitation, AddFriendWithApproach), GetFriendKeyList,
\* IsIncludedInFriendList and SetNotificationMask
SavedDataIds ==
    ReplyOnlyCommands \cup
    {FrdU_GetMyPlayingGame, FrdU_GetFriendKeyList, FrdU_IsIncludedInFriendList,
     FrdU_SetNotificationMask}

\* the ids of frd:a from 0x400 on
FrdAIds ==
    {FrdA_CreateLocalAccount, FrdA_HasUserData, FrdA_SetPresenseGameKey, FrdA_SetMyData} \cup
    UnknownFrdAIds

InitLoaded ==
    /\ ndm_wifi_state = 0
    /\ wifi_connection_status = Idle
    /\ friend_list = <<>>
    /\ my_online_activity = Default_OnlineActivity
    /\ save_archive \in LoadedArchives
    /\ startup = StartupPending
    /\ session_contexts = <<>>
    /\ registry = NoRegistryCalls(0)
    /\ request = NoRequest
    /\ reply = NoReply
    /\ svc_calls = <<>>
    /\ out_buffer = <<>>

NextLoaded ==
    \/ Startup
    \/ AcceptSession
    \/ Waiting /\ \E s \in Sessions, command_id \in SavedDataIds :
          /\ ServiceOfSession(s) = "frd:u"
          /\ handle_frdu_request(s, command_id)
    \/ Waiting /\ \E s \in Sessions, command_id \in SavedDataIds \cup FrdAIds :
          /\ ServiceOfSession(s) = "frd:a"
          /\ handle_frda_request(s, command_id)
    \/ Waiting /\ \E s \in Sessions :
          /\ ServiceOfSession(s) = "frd:n"
          /\ ConnectToWiFi(s, [sig1 |-> TRUE, sig2 |-> TRUE, ac |-> TRUE])
    \/ Waiting /\ \E s \in Sessions, w \in {3} :
          /\ ServiceOfSession(s) = "frd:n"
          /\ DisconnectFromWiFi(s, w, [sig1 |-> TRUE, sig2 |-> TRUE, ac |-> TRUE])
    \/ SendReply

SpecLoaded == InitLoaded /\ [][NextLoaded]_vars

\* C31: once the service has started, the friend list is the one read from
\* the friend list file at startup and the files the account record and the
\* profile record were read from are as they were: no request of frd:u, frd:a
\* or frd:n changes them (CreateLocalAccount, SetMyData, AddFriendWithApproach,
\* UpdateGameMode and the like change nothing), and the friend list never
\* holds more than 100 entries
C31_SavedDataIsNeverModified ==
    /\ [](startup = Success =>
            /\ friend_list = Take(save_archive.friendlist.entries, 100)
            /\ Len(friend_list) <= 100)
    /\ [](Len(friend_list) <= 100)
    /\ [][/\ save_archive' = save_archive
          /\ startup = Success => friend_list' = friend_list]_vars

\* the service started from the file of 101 entries and a session of frd:a
\* was answered by SetMyData: the friend list holds the first 100 entries
C31_Witness ==
    /\ startup = Success
    /\ Len(save_archive.friendlist.entries) = 101
    /\ Len(friend_list) = 100
    /\ reply # NoReply
    /\ request.command_id = FrdA_SetMyData
    /\ reply.result = Success


----------------------------------------------------------------------------
(* GetFriendKeyList on friend lists of every length and on parameter words *)
(* at both ends of the 32 bit range                                        *)

\* the parameter words of GetFriendKeyList: 0 to 3, 0x10000, 0x7fffffff,
\* 0x80000000, 0xfffffffe and 0xffffffff
KeyListParameters ==
    {Word(0, 0), Word(0, 1), Word(0, 2), Word(0, 3), Word(1, 0), Word(32767, 65535),
     Word(32768, 0), Word(65535, 65534), Word(65535, 65535)}

InitKeyList == \E friends \in FriendLists : InitServing(friends)

NextKeyList ==
    \/ Waiting /\ \E s \in Sessions, h \in TwoHeaders(2, 0), offset \in KeyListParameters,
          requested \in KeyListParameters, overflow_checks \in BOOLEAN :
          GetFriendKeyList(s, h, offset, requested, overflow_checks)
    \/ SendReply

SpecKeyList == InitKeyList /\ [][NextKeyList]_vars

\* a GetFriendKeyList request was served
KeyListServed == reply # NoReply /\ IsFrdU(FrdU_GetFriendKeyList)

\* min(offset + requested, len) over the integers, for two 32 bit words and a
\* length below 0x10000
MinOfSum(offset, requested, len) ==
    IF offset[1] > 0 \/ requested[1] > 0 THEN len
    ELSE Min(offset[2] + requested[2], len)

\* C32: GetFriendKeyList(offset, requested) returns the friend keys in the
\* order of the friend list from index start = min(offset, len) up to but
\* excluding end = min(offset + requested, len); the count word of the reply
\* is the number of keys returned, and it is 0 when the offset is at or
\* beyond the length of the list or the list is empty
C32_KeyListSlice ==
    KeyListServed =>
        LET keys == [i \in 1..Len(friend_list) |-> friend_list[i].friend_key]
            len == Len(keys)
            offset == request.words[1]
            requested == request.words[2]
            start == MinOfSum(offset, Word(0, 0), len)
            end == MinOfSum(offset, requested, len)
        IN  /\ reply.result = Success
            /\ reply.static_buffers = <<SubSeq(keys, start + 1, end)>>
            /\ reply.words = <<end - start>>
            /\ (start = len \/ len = 0) => reply.words = <<0>>

\* C33: GetFriendKeyList never faults on its two 32 bit parameters: for every
\* offset and requested count in 0..2^32-1, pairs whose sum exceeds the 32
\* bit word of the target included, it replies success with
\* count = min(requested, len - min(offset, len)), and the end index it
\* computes is never below the start index (the slice never panics)
C33_KeyListNeverFaults ==
    KeyListServed =>
        LET len == Len(friend_list)
            start == MinOfSum(request.words[1], Word(0, 0), len)
        IN  /\ reply.result # Panicked
            /\ reply.result = Success
            /\ reply.words = <<MinOfSum(request.words[2], Word(0, 0), len - start)>>


----------------------------------------------------------------------------
(* ResultToErrorCode on result codes of every class *)

\* the result codes sent: bits 18..31 (as a signed number), bits 10..17 and
\* bits 0..9 each at their ends and around the values the handler tests;
\* the lowest is -2^31 and the highest 2^31 - 1
ErrorCodeInputs ==
    {(hi * 262144) + (mid * 1024) + low :
        hi \in {-8192, -4096, -1, 0, 1, 8191},
        mid \in {0, 48, 49, 50, 255},
        low \in {0, 256, 257, 258, 1023}}

InitErrorCode == InitServing(<<FriendOf(1)>>)

NextErrorCode ==
    \/ Waiting /\ \E s \in Sessions, h \in TwoHeaders(1, 0), c \in ErrorCodeInputs :
          ResultToErrorCode(s, h, c)
    \/ SendReply

SpecErrorCode == InitErrorCode /\ [][NextErrorCode]_vars

\* bits 10..17 of a signed 32 bit number
Bits10To17(r) == (r % 262144) \div 1024

\* bits 0..9 of a signed 32 bit number
Bits0To9(r) == r % 1024

----------------------------------------------------------------------------
(* The scratch buffer: two sessions that take turns with replies of every  *)
(* length                                                                  *)

\* key lists of no key, one key and two keys
ScratchKeyLists ==
    {<<>>, <<FriendOf(1).friend_key>>, <<FriendOf(1).friend_key, FriendOf(2).friend_key>>}

\* the requested maxima sent with them
ScratchMaxima == {0, 1, BigWord}

InitScratch ==
    /\ ndm_wifi_state = 0
    /\ wifi_connection_status = Idle
    /\ friend_list = <<FriendOf(1), FriendOf(2)>>
    /\ my_online_activity = Default_OnlineActivity
    /\ save_archive = ValidSaveArchive(friend_list)
    /\ startup = Success
    /\ session_contexts = accept_session(accept_session(<<>>))
    /\ registry = NoRegistryCalls(Len(session_contexts))
    /\ request = NoRequest
    /\ reply = NoReply
    /\ svc_calls = <<>>
    /\ out_buffer = <<>>

NextScratch ==
    \/ Waiting /\ \E s \in Sessions : GetMyPresence(s, Header(0, 0))
    \/ Waiting /\ \E s \in Sessions, p \in {<<112>>, <<112, 119, 100>>} :
          GetMyPassword(s, Header(0, 0), p)
    \/ Waiting /\ \E s \in Sessions, max \in ScratchMaxima, keys \in ScratchKeyLists :
          GetFriendPresence(s, Header(1, 2), 0, max, keys)
    \/ Waiting /\ \E s \in Sessions, max \in ScratchMaxima, keys \in ScratchKeyLists :
          GetFriendProfile(s, Header(1, 2), 0, max, keys)
    \/ Waiting /\ \E s \in Sessions, max \in ScratchMaxima, keys \in ScratchKeyLists :
          GetFriendScreenName(s, Header(5, 2), 0, BigWord, BigWord, max, keys)
    \/ Waiting /\ \E s \in Sessions, max \in ScratchMaxima, keys \in ScratchKeyLists :
          UnscrambleLocalFriendCode(s, Header(1, 2), 1, max, ScrambledOf(keys))
    \/ SendReply

SpecScratch == InitScratch /\ [][NextScratch]_vars

\* the request in service was answered through the scratch buffer of its
\* session
AnsweredThroughScratchBuffer ==
    /\ reply # NoReply
    /\ request.service = "frd:u"
    /\ reply.result = Success
    /\ reply.static_buffers # <<>>

\* the number of elements the reply of a request is made of
ElementsOfReply(req) ==
    CASE req.command_id = FrdU_GetMyPresence -> 1
      [] req.command_id = FrdU_GetMyPassword -> Len(req.words[1]) + 1
      [] req.command_id = FrdU_GetFriendScreenName ->
             2 * Min(Min(req.words[3], 100),
                     Min(Min(req.words[1], req.words[2]), Len(req.static_buffer)))
      [] OTHER -> Min(Min(req.words[1], 100), Len(req.static_buffer))

\* the buffers of a reply, one after the other
BuffersOfReply ==
    IF Len(reply.static_buffers) = 1 THEN reply.static_buffers[1]
    ELSE reply.static_buffers[1] \o reply.static_buffers[2]

\* C35: after a reply delivered through the scratch buffer of a session, the
\* static_buffer of the calling session holds exactly the reply of that call,
\* as many elements as the call returned and nothing left over from an
\* earlier, larger reply, and the static_buffer of every other session is as
\* it was
C35_ScratchBufferHoldsThisReply ==
    AnsweredThroughScratchBuffer =>
        /\ Len(OwnSession.static_buffer) = ElementsOfReply(request)
        /\ OwnSession.static_buffer = BuffersOfReply
        /\ \A i \in 1..Len(session_contexts) :
               i # request.session_index + 1 =>
                   session_contexts[i] = request.pre_sessions[i]

\* a session whose scratch buffer held a reply of four elements was answered
\* with one element, while the other session holds a reply of its own
C35_Witness ==
    /\ AnsweredThroughScratchBuffer
    /\ Len(FoundSession.static_buffer) = 4
    /\ Len(OwnSession.static_buffer) = 1
    /\ \E i \in 1..Len(session_contexts) :
           /\ i # request.session_index + 1
           /\ session_contexts[i].static_buffer # <<>>


----------------------------------------------------------------------------
(* Local friend codes: UnscrambleLocalFriendCode and IsIncludedInFriendList *)
(* asked about the same codes                                              *)

\* the local friend codes asked about: of the two friends, of nobody, and zero
AskedFriendCodes == {0, 11, 12, 22}

\* the keys the codes are scrambled with
XorKeys == {0, 4660}

\* the friend lists of the save file, and one whose second friend has the
\* local friend code zero
FriendListsWithZeroCode ==
    FriendLists
    \cup {<<FriendOf(1), [FriendOf(2) EXCEPT !.friend_key.local_friend_code = 0]>>}

InitFriendCodes == \E friends \in FriendListsWithZeroCode : InitServing(friends)

NextFriendCodes ==
    \/ Waiting /\ \E s \in Sessions, c \in AskedFriendCodes :
          IsIncludedInFriendList(s, Header(2, 0), c)
    \/ Waiting /\ \E s \in Sessions, max \in 0..MaxKeys \cup {BigWord}, xor_key \in XorKeys,
          codes \in SeqsUpTo(AskedFriendCodes, MaxKeys) :
          UnscrambleLocalFriendCode(s, Header(1, 2), 1, max,
              [i \in 1..Len(codes) |-> ScrambledFriendCode_new(codes[i], xor_key)])
    \/ SendReply

SpecFriendCodes == InitFriendCodes /\ [][NextFriendCodes]_vars

\* some entry of the friend list has the local friend code
HasLocalFriendCode(friend_code) ==
    \E i \in 1..Len(friend_list) :
        friend_list[i].friend_key.local_friend_code = friend_code

\* the code a scrambled friend code of a request stands for
CodeSent(scrambled_friend_code) ==
    Xor16(scrambled_friend_code.friend_code, scrambled_friend_code.xor_key)

UnscrambleServed ==
    /\ reply # NoReply
    /\ request.command_id = FrdU_UnscrambleLocalFriendCode
    /\ reply.result = Success

IsIncludedServed ==
    /\ reply # NoReply
    /\ request.command_id = FrdU_IsIncludedInFriendList

\* C36: UnscrambleLocalFriendCode gives, in the order of its input, the
\* unscrambled code where some entry of the friend list has that local friend
\* code and 0 elsewhere, and IsIncludedInFriendList answers true for a code
\* exactly when some entry has it: for a code that is not zero the output of
\* the first is non-zero exactly when the second answers true
C36_UnscrambleAgreesWithIsIncluded ==
    /\ UnscrambleServed =>
           LET codes == request.static_buffer
               out == reply.static_buffers[1]
           IN  /\ Len(out) = Min(Len(codes), Min(request.words[1], 100))
               /\ \A i \in 1..Len(out) :
                      /\ out[i] = IF HasLocalFriendCode(CodeSent(codes[i]))
                                  THEN CodeSent(codes[i]) ELSE 0
                      /\ CodeSent(codes[i]) # 0 =>
                             ((out[i] # 0) <=> HasLocalFriendCode(CodeSent(codes[i])))
    /\ IsIncludedServed =>
           /\ reply.result = Success
           /\ reply.words = <<HasLocalFriendCode(request.words[1])>>

\* two codes were unscrambled with a key that is not zero, the first of a
\* friend and the second of nobody
C36_Witness ==
    /\ UnscrambleServed
    /\ Len(request.static_buffer) = 2
    /\ request.static_buffer[1].xor_key # 0
    /\ reply.static_buffers[1] = <<22, 0>>
    /\ CodeSent(request.static_buffer[2]) = 12

\* IsIncludedInFriendList answered true for the code of a friend
C36_WitnessIsIncluded ==
    /\ IsIncludedServed
    /\ request.words[1] = 11
    /\ reply.words = <<TRUE>>


----------------------------------------------------------------------------
(* GetFriendScreenName: the two arrays of one reply                        *)

ScreenNamesServed ==
    /\ reply # NoReply
    /\ request.command_id = FrdU_GetFriendScreenName
    /\ reply.result = Success

\* the friends of the list that have the key
FriendsMatching(friend_key) ==
    {j \in 1..Len(friend_list) : friend_list[j].friend_key = friend_key}

C37_WitnessLimited ==
    /\ ScreenNamesServed
    /\ request.words[2] = 0
    /\ Len(request.static_buffer) = 2
    /\ reply.static_buffers = << <<>>, <<>> >>


----------------------------------------------------------------------------
(* GetMyScreenName: the stored screen name in a reply of 11 code units     *)

FrdU_GetMyScreenName == 9

\* str::encode_utf16: a character of the basic plane is one code unit, a
\* character beyond it is a pair of surrogates
RECURSIVE encode_utf16(_)
encode_utf16(string) ==
    IF string = <<>> THEN <<>>
    ELSE LET c == Head(string)
             units == IF c < 65536 THEN <<c>>
                      ELSE <<55296 + ((c - 65536) \div 1024),
                             56320 + ((c - 65536) % 1024)>>
         IN  units \o encode_utf16(Tail(string))

\* screen_name is context.my_data.screen_name, which no handler writes; the
\* header is not validated
GetMyScreenName(s, header, stored_screen_name) ==
    /\ Waiting
    /\ LET req == IpcRequest("frd:u", FrdU_GetMyScreenName, s, header,
                             <<stored_screen_name>>, 0, <<>>, <<>>)
           taken == Take(encode_utf16(stored_screen_name), 10)
           screen_name == [index \in 1..11 |->
                              IF index <= Len(taken) THEN taken[index] ELSE 0]
       IN  ReplyWords(req, <<screen_name>>)
    /\ UNCHANGED ctx_vars

\* a name of n letters, from "a" on
NameOfLength(n) == [i \in 1..n |-> 96 + i]

\* the stored names: of no letter, of 1, 9, 10, 11, 12 and 26 letters, and one
\* of ten letters followed by a character beyond the basic plane (U+1F600)
StoredScreenNames ==
    {NameOfLength(n) : n \in {0, 1, 9, 10, 11, 12, 26}}
    \cup {NameOfLength(10) \o <<128512>>, NameOfLength(9) \o <<128512>>}

InitScreenName == \E friends \in FriendLists : InitServing(friends)

NextScreenName ==
    \/ Waiting /\ \E s \in Sessions, h \in TwoHeaders(0, 0) \cup TwoHeaders(7, 2),
          name \in StoredScreenNames :
          GetMyScreenName(s, h, name)
    \/ SendReply

SpecScreenName == InitScreenName /\ [][NextScreenName]_vars

ScreenNameServed ==
    /\ reply # NoReply
    /\ request.command_id = FrdU_GetMyScreenName

\* the code units of the stored name a request found
UnitsStored == encode_utf16(request.words[1])

\* C38: GetMyScreenName returns the stored screen name truncated to 11
\* characters: a name of exactly 11 UTF-16 code units is returned whole, a
\* longer one is cut to its first 11 code units and a shorter one is padded
\* with zeros
C38_ScreenNameOfElevenUnits ==
    ScreenNameServed =>
        /\ reply.result = Success
        /\ Len(reply.words) = 1
        /\ Len(reply.words[1]) = 11
        /\ \A i \in 1..11 :
               reply.words[1][i] =
                   IF i <= Len(UnitsStored) THEN UnitsStored[i] ELSE 0

\* what the handler returns: the first 10 code units of the stored name and
\* zeros up to the 11th, which is always zero
C38_FirstTenUnitsAndZero ==
    ScreenNameServed =>
        /\ reply.result = Success
        /\ Len(reply.words) = 1
        /\ Len(reply.words[1]) = 11
        /\ reply.words[1][11] = 0
        /\ \A i \in 1..10 :
               reply.words[1][i] =
                   IF i <= Len(UnitsStored) THEN UnitsStored[i] ELSE 0

\* a stored name of exactly 11 code units was answered
C38_WitnessElevenUnits ==
    /\ ScreenNameServed
    /\ Len(UnitsStored) = 11


----------------------------------------------------------------------------
(* The queries: two sessions that send every command that fetches, the    *)
(* second of which also sets a mask, a playing game and the WiFi           *)
(* connection and has events queued for it                                 *)

\* GetMyFriendKey to GetMyPassword, IsIncludedInFriendList, GetNatProperties,
\* GetServerTimeInterval and GetServerTypes
ScalarGetterIds ==
    (5..FrdU_GetMyPassword) \cup
    {FrdU_IsIncludedInFriendList, 45, FrdU_GetServerTimeInterval, 48}

\* GetFriendKeyList and the queries that take a list of keys or codes
BatchQueryIds ==
    {FrdU_GetFriendKeyList, FrdU_UnscrambleLocalFriendCode, FrdU_GetFriendComment} \cup
    (FrdU_GetFriendPresence..FrdU_GetFriendInfo)

\* the other commands of frd:u that fetch: GetLastResponseResult,
\* GetGameAuthenticationData, GetServiceLocatorData, GetMyApproachContext and
\* GetExtendedNatProperties
OtherFetchIds ==
    {35, FrdU_GetGameAuthenticationData, FrdU_GetServiceLocatorData, 51,
     FrdU_GetExtendedNatProperties}

QueryIds == ScalarGetterIds \cup BatchQueryIds \cup OtherFetchIds

InitQueries ==
    /\ ndm_wifi_state = 0
    /\ wifi_connection_status = Idle
    /\ friend_list = <<FriendOf(1)>>
    /\ my_online_activity = Default_OnlineActivity
    /\ save_archive = ValidSaveArchive(friend_list)
    /\ startup = Success
    /\ session_contexts = accept_session(accept_session(<<>>))
    /\ registry = NoRegistryCalls(Len(session_contexts))
    /\ request = NoRequest
    /\ reply = NoReply
    /\ svc_calls = <<>>
    /\ out_buffer = <<>>

NextQueries ==
    \/ Waiting /\ \E s \in Sessions, command_id \in QueryIds :
          handle_frdu_request(s, command_id)
    \/ Waiting /\ \E s \in Sessions :
          handle_frdu_request(s, FrdU_GetEventNotification)
    \/ Waiting /\ \E s \in Sessions : GetWiFiState(s)
    \/ Waiting /\ \E s \in Sessions \ {0} :
          client_event_queue_push(s, NotificationEvent(1, FriendKey(1, 0, 11)), MaxQueued)
    \/ Waiting /\ \E s \in Sessions \ {0} : SetNotificationMask(s, Header(1, 0), BigWord)
    \/ Waiting /\ \E s \in Sessions \ {0} : SetPresenseGameKey(s, Header(4, 0), 1033, 2, 9)
    \/ Waiting /\ \E s \in Sessions \ {0} :
          ConnectToWiFi(s, [sig1 |-> TRUE, sig2 |-> TRUE, ac |-> TRUE])
    \/ SendReply

SpecQueries == InitQueries /\ [][NextQueries]_vars

\* the step serves a query: a getter, a batch query or another fetch of
\* frd:u, or GetWiFiState of frd:n
ServesQuery ==
    /\ Waiting
    /\ reply' # NoReply
    /\ \/ request'.service = "frd:u" /\ request'.command_id \in QueryIds
       \/ request'.service = "frd:n" /\ request'.command_id = FrdN_GetWiFiState

ServesGetEventNotification ==
    /\ Waiting
    /\ reply' # NoReply
    /\ request'.service = "frd:u"
    /\ request'.command_id = FrdU_GetEventNotification

\* the saved data, the playing game and the WiFi state are as they were
SharedStateKept ==
    /\ save_archive' = save_archive
    /\ friend_list' = friend_list
    /\ my_online_activity' = my_online_activity
    /\ ndm_wifi_state' = ndm_wifi_state
    /\ wifi_connection_status' = wifi_connection_status

\* every session but the calling one is as it was
OtherSessionsKept ==
    /\ Len(session_contexts') = Len(session_contexts)
    /\ \A i \in 1..Len(session_contexts) :
           i # request'.session_index + 1 => session_contexts'[i] = session_contexts[i]

\* the calling session before the step
CallingSession == session_contexts[request'.session_index + 1]

\* C39: queries are read-only. Every scalar getter and every batch query
\* leaves the saved account, profile and friend list, the playing game, the
\* WiFi state and every field of every session as they were, but for the
\* scratch buffer of the calling session; GetEventNotification is the only
\* fetch that changes another field of a session, the queue of the calling
\* session, which it empties
C39_QueriesAreReadOnly ==
    /\ [][ServesQuery =>
             /\ SharedStateKept
             /\ OtherSessionsKept
             /\ session_contexts'[request'.session_index + 1] =
                    [CallingSession EXCEPT !.static_buffer =
                         session_contexts'[request'.session_index + 1].static_buffer]]_vars
    /\ [][ServesGetEventNotification =>
             /\ SharedStateKept
             /\ OtherSessionsKept
             /\ session_contexts'[request'.session_index + 1] =
                    IF reply'.result = Success
                    THEN [CallingSession EXCEPT !.client_event_queue = <<>>]
                    ELSE CallingSession]_vars

\* a batch query was answered through the scratch buffer of its session while
\* the other session holds a mask, a queued event and a reply of its own, a
\* game is played and the WiFi is connected
C39_Witness ==
    /\ reply # NoReply
    /\ request.service = "frd:u"
    /\ request.command_id = FrdU_GetFriendProfile
    /\ reply.result = Success
    /\ Len(OwnSession.static_buffer) = 1
    /\ FoundSession.static_buffer = <<>>
    /\ my_online_activity.playing_game.title_id = 1033
    /\ wifi_connection_status # Idle
    /\ \E i \in 1..Len(session_contexts) :
           /\ i # request.session_index + 1
           /\ session_contexts[i].notification_mask = BigWord
           /\ session_contexts[i].client_event_queue # <<>>
           /\ Len(session_contexts[i].static_buffer) > 0

\* GetEventNotification emptied a queue of two events, of which it returned
\* one
C39_WitnessDrained ==
    /\ reply # NoReply
    /\ request.command_id = FrdU_GetEventNotification
    /\ reply.result = Success
    /\ Len(FoundSession.client_event_queue) = 2
    /\ OwnSession.client_event_queue = <<>>
    /\ reply.written = 1

====
